---- MODULE Spec2Model ----
(***************************************************************************)
(* A model of earwigbot.wiki.page.Page: the lazily synchronised local      *)
(* image of one wiki page, its content cache, redirect following and the   *)
(* edit protocol (token, guards, login retry, error classification),       *)
(* run against a remote wiki whose pages other editors change.             *)
(*                                                                         *)
(* Every method of Page is an operator from a "world" to a world.  A world *)
(* holds the Page's fields (pg), the remote wiki (rem), the log of remote  *)
(* calls made by the running method (log), the exception it raised (exc)   *)
(* and its return value (ret).  A raised exception skips the rest of the   *)
(* method, as in Python.  One change by another editor may land just       *)
(* before the iat-th remote call of a method (istep): the remote is not    *)
(* frozen while a method runs.                                             *)
(*                                                                         *)
(* Three more components of the bot are modelled at the end, each with a   *)
(* specification of its own: the Bot's monitoring loop and stop(), an      *)
(* IRCConnection with the threads sending on it, and the category walk of  *)
(* the WikiProjectTagger.                                                  *)
(***************************************************************************)
EXTENDS Integers, Sequences, FiniteSets, TLC

VARIABLES page, remote, last, prev, obs, bot, conn, tagger

vars == <<page, remote, last, prev, obs, bot, conn, tagger>>

\* The variables of the Page model, and those of the other components (the
\* Bot and its monitoring loop, an IRCConnection and the threads sending on
\* it, a WikiProjectTagger walking a category).
pagevars == <<page, remote, last, prev, obs>>

others == <<bot, conn, tagger>>

\* A component that a specification does not run.
NotRun == "none"

(***************************************************************************)
(* Bounds of the model.                                                    *)
(***************************************************************************)
\* The remote clock stops here: no revision, deletion or token is stamped later.
MaxClock == 2

\* The messages the threads of an IRCConnection send between them.
MaxSent == 3

\* The largest recursion depth NUM given to the WikiProjectTagger.
MaxDepth == 2

(***************************************************************************)
(* Values.                                                                 *)
(***************************************************************************)
\* Python's None for the integer-valued fields (token, timestamps).
NoTime == 0 - 1

\* Python's None for the string-valued fields (content, creator, return value).
NoneVal == "None"

\* page._exists: 0 unknown, 1 invalid, 2 missing, 3 exists.
ExistsUnknown == 0

ExistsInvalid == 1

ExistsMissing == 2

ExistsYes == 3

\* Titles a Page is constructed with: "a" is an un-normalised spelling of "A",
\* "Bad" is a title the wiki rejects as invalid.
Titles == {"A", "a", "Bad"}

\* Titles of the pages the remote wiki can hold.
RemoteTitles == {"A", "B"}

\* Titles with a prefix before a colon, which the wiki of the model rejects.
PrefixedTitles == {"Talk:A", "Special:A", "Foo:A"}

\* Titles given to the constructor with whitespace around them.
PaddedTitles == {" Talk", "Foo "}

\* title.strip()
Strip(t) ==
    CASE t = " Talk" -> "Talk"
      [] t = "Foo " -> "Foo"
      [] OTHER -> t

\* What stands before and after the first colon of the titles of the model.
TitlePrefixes == {"Talk", "Special", "Foo", "User", "User talk"}

TitleBodies == {"A", "a", "Bad"}

HasPrefix(t) == \E p \in TitlePrefixes, b \in TitleBodies : t = p \o ":" \o b

\* title.split(":", 1)[0]
PrefixOf(t) ==
    IF HasPrefix(t)
    THEN CHOOSE p \in TitlePrefixes : \E b \in TitleBodies : t = p \o ":" \o b
    ELSE t

\* title.split(":", 1)[1], and the title itself when that raises IndexError.
BodyOf(t) ==
    IF HasPrefix(t)
    THEN CHOOSE b \in TitleBodies : \E p \in TitlePrefixes : t = p \o ":" \o b
    ELSE t

\* The namespace names site.namespace_name_to_id knows; for any other it
\* raises NamespaceNotFoundError.
KnownPrefixes == {"Talk", "Special", "User", "User talk"}

NamespaceNameToId(prefix) ==
    CASE prefix = "Talk" -> 1
      [] prefix = "User" -> 2
      [] prefix = "User talk" -> 3
      [] OTHER -> 0 - 1

\* site.namespace_id_to_name for the ids a talk page or its subject can have.
NamespaceIdToName(ns) ==
    CASE ns = 1 -> "Talk"
      [] ns = 2 -> "User"
      [] ns = 3 -> "User talk"
      [] OTHER -> ""

\* Page.__init__: the namespace, from the title alone.  The prefix is cut from
\* the stripped title and compared with the title as it was given.
InitNamespace(t) ==
    IF PrefixOf(Strip(t)) # t
    THEN IF PrefixOf(Strip(t)) \in KnownPrefixes
         THEN NamespaceNameToId(PrefixOf(Strip(t)))
         ELSE 0
    ELSE 0

\* Page.__init__: "Is this a talkpage?"
InitIsTalkpage(ns) == IF ns < 0 THEN FALSE ELSE ns % 2 = 1

\* The remote's normalisation of a title (the "title" field of its answers).
Norm(t) == IF t = "a" THEN "A" ELSE t

Other(t) == IF t = "A" THEN "B" ELSE "A"

\* Page contents.  "#REDIRECT [[X]]" is a redirect the pattern re_redirect
\* parses; "#REDIRECT: [[X]]" is one the wiki accepts as a redirect and the
\* pattern does not (the colon is not matched by \s*).
Redir(t) == "#REDIRECT [[" \o t \o "]]"

OddRedir(t) == "#REDIRECT: [[" \o t \o "]]"

\* Text written by the Page under test, and text written by other editors.
OwnTexts == {"mine"}

ForeignContents(t) == {"text", Redir(Other(t)), OddRedir(Other(t))}

\* Whether the wiki flags a content as a redirect (the "redirect" key).
WikiIsRedirect(c) == \E t \in RemoteTitles : c = Redir(t) \/ c = OddRedir(t)

\* re.findall(re_redirect, content, flags=re.I): the targets found.
ReFindallRedirect(c) == {t \in RemoteTitles : c = Redir(t)}

(***************************************************************************)
(* The remote wiki.  pages[t].st is "missing" or "exists"; ts is the       *)
(* timestamp of the last revision (of the last deletion for a missing      *)
(* page, 0 if there was none).  canEdit: whether the account is given      *)
(* edit tokens.                                                            *)
(***************************************************************************)
RemotePage(st, c, ts) == [st |-> st, content |-> c, ts |-> ts]

\* Another editor saves content c on page t.
EnvEdit(rem, t, c) ==
    [rem EXCEPT !.clock = rem.clock + 1,
                !.pages[t] = RemotePage("exists", c, rem.clock + 1)]

\* An administrator deletes page t.
EnvDelete(rem, t) ==
    [rem EXCEPT !.clock = rem.clock + 1,
                !.pages[t] = RemotePage("missing", NoneVal, rem.clock + 1)]

\* The account's right to edit is granted or withdrawn.
EnvRights(rem) == [rem EXCEPT !.canEdit = ~rem.canEdit]

NoStep == [kind |-> "none", title |-> "A", content |-> NoneVal]

\* No change of the wiki: the remote call it is due before fails instead.
FailStep == [kind |-> "fail", title |-> "A", content |-> NoneVal]

EnvApply(rem, s) ==
    CASE s.kind = "edit" -> EnvEdit(rem, s.title, s.content)
      [] s.kind = "delete" -> EnvDelete(rem, s.title)
      [] s.kind = "rights" -> EnvRights(rem)
      [] OTHER -> rem

PageIdOf(t) == IF t = "A" THEN 1 ELSE 2

\* The answer to a query with prop=info (and intoken=edit) for a title: the
\* fields of result["query"]["pages"] that Page reads.
MetaResponse(rem, title) ==
    LET t == Norm(title) IN
    IF t \notin RemoteTitles
    THEN [title |-> t, pageid |-> 0 - 1, missing |-> FALSE, redirect |-> FALSE,
          edittoken |-> NoTime, creator |-> NoneVal, ns |-> 0]
    ELSE LET p == rem.pages[t] IN
         [title |-> t,
          pageid |-> IF p.st = "exists" THEN PageIdOf(t) ELSE 0 - 1,
          missing |-> p.st = "missing",
          redirect |-> p.st = "exists" /\ WikiIsRedirect(p.content),
          edittoken |-> IF rem.canEdit THEN rem.clock ELSE NoTime,
          creator |-> IF p.st = "exists" THEN "Alice" ELSE NoneVal,
          ns |-> rem.ns]

\* The answer to a query with prop=revisions, rvprop=content|timestamp.
ContentResponse(rem, title) ==
    LET t == Norm(title) IN
    IF t \in RemoteTitles /\ rem.pages[t].st = "exists"
    THEN [hasrev |-> TRUE, content |-> rem.pages[t].content, ts |-> rem.pages[t].ts]
    ELSE [hasrev |-> FALSE, content |-> NoneVal, ts |-> NoTime]

(***************************************************************************)
(* The Page object.                                                        *)
(***************************************************************************)
\* Page.__init__: no remote call; everything but the title is unknown.
NewPage(title, follow_redirects) ==
    [title |-> Strip(title), follow |-> follow_redirects, keep |-> follow_redirects,
     exists |-> ExistsUnknown, pageid |-> 0, is_redirect |-> "unknown",
     content |-> NoneVal, creator |-> NoneVal,
     token |-> NoTime, basets |-> NoTime, startts |-> NoTime, hops |-> 0,
     fullurl |-> NoneVal, ns |-> InitNamespace(title),
     talk |-> InitIsTalkpage(InitNamespace(title))]

\* One remote call as the log records it: ev is "meta", "content", "combined"
\* (the query of get() for both), "submit" or "login"; a query is logged with
\* what the remote answered, a submission with the request and its outcome.
Event(ev, title) ==
    [ev |-> ev, title |-> title, token |-> NoTime, start |-> NoTime,
     hasstart |-> FALSE, base |-> NoTime, createonly |-> FALSE,
     recreate |-> FALSE, text |-> NoneVal, result |-> NoneVal]

Logged(w, e) == [w EXCEPT !.log = Append(w.log, e)]

Raise(w, e) == [w EXCEPT !.exc = e]

\* The world as a remote call reaches the wiki: the change of another editor
\* that was due before this call has landed; or the call itself fails, and
\* api_query raises SiteAPIError with no answer.
Arrive(w) ==
    IF Len(w.log) + 1 = w.iat
    THEN IF w.istep.kind = "fail"
         THEN Logged(Raise(w, "SiteAPIError"), Event("failed", w.pg.title))
         ELSE [w EXCEPT !.rem = EnvApply(w.rem, w.istep)]
    ELSE w

\* Raising an exception with a message.
RaiseMsg(w, e, m) == [w EXCEPT !.exc = e, !.msg = m]

Return(w, v) == [w EXCEPT !.ret = v]

\* _assert_validity without its test.
AssertValidityNever(w) == w

\* Page._assert_validity
AssertValidity(w) ==
    IF w.exc = "none" /\ w.pg.exists = ExistsInvalid
    THEN Raise(w, "InvalidPageError")
    ELSE w

\* _assert_existence without its second test.
AssertNotMissingNever(w) == w

\* The second test of Page._assert_existence.
AssertNotMissing(w) ==
    IF w.exc = "none" /\ w.pg.exists = ExistsMissing
    THEN Raise(w, "PageNotFoundError")
    ELSE w

\* Page._assert_existence
AssertExistence(w) == AssertNotMissing(AssertValidity(w))

\* Page._load_attributes(result=res): the fields res sets.
LoadAttributesFrom(w, res) ==
    LET start == [w.pg EXCEPT !.title = res.title,
                              !.is_redirect = IF res.redirect THEN "yes" ELSE "no",
                              !.pageid = res.pageid]
        loaded == [start EXCEPT
                     !.exists = IF res.pageid < 0 THEN ExistsMissing ELSE ExistsYes,
                     !.token = IF res.edittoken # NoTime THEN res.edittoken ELSE @,
                     !.startts = IF res.edittoken # NoTime THEN w.rem.clock ELSE @,
                     !.creator = IF res.creator # NoneVal THEN res.creator ELSE @,
                     !.fullurl = "url:" \o res.title,
                     !.ns = res.ns,
                     !.talk = (res.ns % 2 = 1)]
    IN
    IF res.pageid < 0 /\ ~res.missing
    THEN [w EXCEPT !.pg = [start EXCEPT !.exists = ExistsInvalid]]
    ELSE [w EXCEPT !.pg = loaded]

\* What a metadata answer says of the page, for the log.
MetaKind(res) ==
    IF res.redirect THEN "redirect"
    ELSE IF res.pageid >= 0 THEN "page"
    ELSE IF res.missing THEN "missing"
    ELSE "invalid"

\* The metadata query of _load_attributes, answered by the remote as it is at w.
MetaQuery(w) ==
    IF w.exc # "none" THEN w
    ELSE LoadAttributesFrom(
             Logged(w, [Event("meta", w.pg.title) EXCEPT
                           !.token = MetaResponse(w.rem, w.pg.title).edittoken,
                           !.result = MetaKind(MetaResponse(w.rem, w.pg.title))]),
             MetaResponse(w.rem, w.pg.title))

\* Page._load_attributes(): one metadata query.
LoadAttributes(w) == MetaQuery(Arrive(w))

\* Page._load_content(result=res): the KeyError handler reloads the attributes.
LoadContentFrom(w, res) ==
    IF res.hasrev
    THEN [w EXCEPT !.pg.content = res.content, !.pg.basets = res.ts]
    ELSE AssertExistence(LoadAttributes(w))

\* The content query of _load_content, answered by the remote as it is at w.
ContentQuery(w) ==
    IF w.exc # "none" THEN w
    ELSE LoadContentFrom(
        Logged(w, [Event("content", w.pg.title) EXCEPT
                      !.text = ContentResponse(w.rem, w.pg.title).content,
                      !.base = ContentResponse(w.rem, w.pg.title).ts]),
        ContentResponse(w.rem, w.pg.title))

\* Page._load_content(): one content query.
LoadContent(w) == ContentQuery(Arrive(w))

RECURSIVE Get(_)

\* ParseRedirectTarget answering the page's own title when it finds no target.
ParseRedirectTargetOrSelf(w) ==
    IF w.exc # "none" THEN w
    ELSE IF w.ret = NoneVal THEN Raise(w, "TypeError")
    ELSE IF ReFindallRedirect(w.ret) = {} THEN Return(w, w.pg.title)
    ELSE Return(w, CHOOSE t \in ReFindallRedirect(w.ret) : TRUE)

\* Page.get_redirect_target, after its call of get().
ParseRedirectTarget(w) ==
    IF w.exc # "none" THEN w
    ELSE IF w.ret = NoneVal THEN Raise(w, "TypeError")
    ELSE IF ReFindallRedirect(w.ret) = {} THEN Raise(w, "RedirectError")
    ELSE Return(w, CHOOSE t \in ReFindallRedirect(w.ret) : TRUE)

\* Page.get_redirect_target
GetRedirectTarget(w) == ParseRedirectTarget(Get(w))

\* get(), state unknown: the use of the combined answer once the attributes
\* are loaded from it.
GetCombinedContent(w, cont) ==
    IF w.exc # "none" THEN w ELSE LoadContentFrom(w, cont)

\* get(), state unknown: the query for attributes and content at once.
CombinedQuery(w) ==
    IF w.exc # "none" THEN w
    ELSE GetCombinedContent(
        AssertExistence(LoadAttributesFrom(
            Logged(w, [Event("combined", w.pg.title) EXCEPT
                          !.token = MetaResponse(w.rem, w.pg.title).edittoken,
                          !.result = MetaKind(MetaResponse(w.rem, w.pg.title)),
                          !.text = ContentResponse(w.rem, w.pg.title).content,
                          !.base = ContentResponse(w.rem, w.pg.title).ts]),
            [MetaResponse(w.rem, w.pg.title) EXCEPT !.creator = NoneVal])),
        ContentResponse(w.rem, w.pg.title))

\* "return self._content"
ReturnContent(w) == IF w.exc # "none" THEN w ELSE Return(w, w.pg.content)

\* GetRetarget without the second run of get().
GetRetargetNoFetch(w) ==
    IF w.exc # "none" THEN w
    ELSE ReturnContent([w EXCEPT !.pg.title = w.ret,
                                  !.pg.keep = FALSE,
                                  !.pg.hops = @ + 1,
                                  !.pg.exists = ExistsUnknown])

\* get(): the title becomes the redirect target and get() runs once more.
GetRetarget(w) ==
    IF w.exc # "none" THEN w
    ELSE ReturnContent(Get([w EXCEPT !.pg.title = w.ret,
                                      !.pg.keep = FALSE,
                                      !.pg.hops = @ + 1,
                                      !.pg.exists = ExistsUnknown]))

\* get(), state unknown, after the combined query.
GetFollow(w) ==
    IF w.exc # "none" THEN w
    ELSE IF w.pg.keep /\ w.pg.is_redirect = "yes"
    THEN GetRetarget(GetRedirectTarget(w))
    ELSE ReturnContent(w)

\* GetKnown without the test of the cache.
GetKnownNoCache(w) ==
    IF w.exc # "none" THEN w ELSE ReturnContent(LoadContent(w))

\* get(), state known, after _assert_existence.
GetKnown(w) ==
    IF w.exc # "none" THEN w
    ELSE IF w.pg.content = NoneVal THEN ReturnContent(LoadContent(w))
    ELSE ReturnContent(w)

\* Page.get
Get(w) ==
    IF w.pg.exists = ExistsUnknown
    THEN GetFollow(CombinedQuery(Arrive(w)))
    ELSE GetKnown(AssertExistence(w))

\* LoadRetarget without "self._keep_following = False".
LoadRetargetKeep(w) ==
    IF w.exc # "none" THEN w
    ELSE LoadAttributes([w EXCEPT !.pg.title = w.ret,
                                  !.pg.hops = @ + 1,
                                  !.pg.content = NoneVal])

\* LoadRetarget resetting the state as get() does when it follows a redirect.
LoadRetargetResetting(w) ==
    IF w.exc # "none" THEN w
    ELSE LoadAttributes([w EXCEPT !.pg.title = w.ret,
                                  !.pg.keep = FALSE,
                                  !.pg.hops = @ + 1,
                                  !.pg.content = NoneVal,
                                  !.pg.exists = ExistsUnknown])

\* _load(): the title becomes the redirect target and the attributes are
\* loaded once more.
LoadRetarget(w) ==
    IF w.exc # "none" THEN w
    ELSE LoadAttributes([w EXCEPT !.pg.title = w.ret,
                                  !.pg.keep = FALSE,
                                  !.pg.hops = @ + 1,
                                  !.pg.content = NoneVal])

\* _load(), after the first _load_attributes().
LoadFollow(w) ==
    IF w.exc # "none" THEN w
    ELSE IF w.pg.keep /\ w.pg.is_redirect = "yes"
    THEN LoadRetarget(GetRedirectTarget(w))
    ELSE w

\* A _load that fetches the attributes twice before it looks for a redirect.
LoadTwice(w) == LoadFollow(LoadAttributes(LoadAttributes(w)))

\* Page._load
Load(w) == LoadFollow(LoadAttributes(w))

\* ReloadContent without the test "if self._content is not None".
ReloadContentEager(w) == IF w.exc # "none" THEN w ELSE LoadContent(w)

\* A reload() that never fetches content.
ReloadContentNever(w) == w

\* reload(), after _load().
ReloadContent(w) ==
    IF w.exc # "none" THEN w
    ELSE IF w.pg.content # NoneVal THEN LoadContent(w)
    ELSE w

\* A reload() that only forgets the state and leaves the fetch to the next read.
ReloadLazy(w) == [w EXCEPT !.pg.exists = ExistsUnknown]

\* Page.reload
Reload(w) == ReloadContent(Load(w))

(***************************************************************************)
(* The edit protocol.                                                      *)
(***************************************************************************)
\* Error codes of a rejected edit, by the family _handle_edit_errors tests.
PermissionCodes == {"noedit", "cantcreate", "protectedtitle", "noimageredirect"}

AnonCodes == {"noedit-anon", "cantcreate-anon", "noimageredirect-anon"}

ConflictCodes == {"editconflict", "pagedeleted", "articleexists"}

EmptyCodes == {"emptypage", "emptynewsection"}

\* The remote's verdict on a submission apart from the state of the page: "ok"
\* (the page's state decides), an error code, a failed assertion, a failure
\* with no assertion, or a SiteAPIError that carries no code.
Verdicts ==
    {"ok", "noedit", "noedit-anon", "emptypage", "spamdetected", "badtoken",
     "assert:user", "assert:bot", "assert:exists", "Failure", "nocode"}

\* The value of result["edit"]["assert"] under a failed-assertion verdict.
AssertionOf(v) ==
    CASE v = "assert:user" -> "user"
      [] v = "assert:bot" -> "bot"
      [] OTHER -> "exists"

Outcome(kind, code, rem) == [kind |-> kind, code |-> code, rem |-> rem]

\* The wiki's decision on an edit request p from the state of page t.
RemoteDecide(rem, p, t) ==
    IF rem.pages[t].st = "missing"
    THEN IF ~p.recreate /\ p.start # NoTime /\ rem.pages[t].ts > p.start
         THEN Outcome("error", "pagedeleted", rem)
         ELSE Outcome("Success", NoneVal, EnvEdit(rem, t, p.text))
    ELSE IF p.createonly THEN Outcome("error", "articleexists", rem)
    ELSE IF p.base # NoTime /\ rem.pages[t].ts > p.base
    THEN Outcome("error", "editconflict", rem)
    ELSE Outcome("Success", NoneVal, EnvEdit(rem, t, p.text))

\* What the wiki does with an edit request p under verdict v: the new remote
\* and the outcome ("Success", "error" with a code, "assert" with a value,
\* "Failure", "nocode").
RemoteSubmit(rem, p, v) ==
    IF v = "nocode" THEN Outcome("nocode", NoneVal, rem)
    ELSE IF v = "Failure" THEN Outcome("Failure", NoneVal, rem)
    ELSE IF v \in {"assert:user", "assert:bot", "assert:exists"}
    THEN Outcome("assert", AssertionOf(v), rem)
    ELSE IF v # "ok" THEN Outcome("error", v, rem)
    ELSE IF Norm(p.title) \notin RemoteTitles
    THEN Outcome("error", "invalidtitle", rem)
    ELSE RemoteDecide(rem, p, Norm(p.title))

\* BuildEditParams without the base timestamp.
BuildEditParamsNoBase(pg, text, force) ==
    [Event("submit", pg.title) EXCEPT
        !.text = text,
        !.token = pg.token,
        !.hasstart = ~force,
        !.start = IF force THEN NoTime ELSE pg.startts,
        !.createonly = ~force /\ pg.exists = ExistsMissing,
        !.recreate = force]

\* BuildEditParams with the create guard set under force too.
BuildEditParamsGuardForced(pg, text, force) ==
    [Event("submit", pg.title) EXCEPT
        !.text = text,
        !.token = pg.token,
        !.hasstart = ~force,
        !.start = IF force THEN NoTime ELSE pg.startts,
        !.base = IF force THEN NoTime ELSE pg.basets,
        !.createonly = pg.exists = ExistsMissing,
        !.recreate = force]

\* Page._build_edit_params: the fields of the request that guard the edit.
BuildEditParams(pg, text, force) ==
    [Event("submit", pg.title) EXCEPT
        !.text = text,
        !.token = pg.token,
        !.hasstart = ~force,
        !.start = IF force THEN NoTime ELSE pg.startts,
        !.base = IF force THEN NoTime ELSE pg.basets,
        !.createonly = ~force /\ pg.exists = ExistsMissing,
        !.recreate = force]

NoParams == Event("none", "A")

\* The login as it reaches the wiki.
LoginQuery(w) ==
    IF w.exc # "none" THEN w ELSE Logged(w, Event("login", w.pg.title))

\* site._login(login_info): one remote call.
Login(w) == LoginQuery(Arrive(w))

NumSubmits(log) == Cardinality({i \in 1..Len(log) : log[i].ev = "submit"})

RECURSIVE EditCall(_, _, _, _, _)

\* Retry without "self._token = None".
RetryKeepingToken(w, params) ==
    IF w.exc # "none" THEN w
    ELSE EditCall(w, params, NoneVal, FALSE, 1)

\* "self._token = None; return self._edit(params=params, tries=1)"
Retry(w, params) ==
    IF w.exc # "none" THEN w
    ELSE EditCall([w EXCEPT !.pg.token = NoTime], params, NoneVal, FALSE, 1)

\* LoginAndRetry without its LoginError: a second rejection is let through.
LoginAndRetryQuiet(w, params, tries) ==
    IF tries = 0 THEN Retry(Login(w), params) ELSE w

\* The login-and-retry branch of both handlers, once login info is known to be
\* complete.
LoginAndRetry(w, params, tries) ==
    IF tries = 0
    THEN Retry(Login(w), params)
    ELSE RaiseMsg(w, "LoginError", "not logged in")

\* InvalidateOnConflict without its assignments.
KeepOnConflict(w) == w

\* _handle_edit_errors: "These attributes are now invalidated".
InvalidateOnConflict(w) ==
    [w EXCEPT !.pg.content = NoneVal, !.pg.basets = NoTime,
              !.pg.exists = ExistsUnknown]

\* HandleEditErrors without the branch for "filtered".
HandleEditErrorsNoFiltered(w, code, params, tries) ==
    IF code \in PermissionCodes THEN RaiseMsg(w, "PermissionsError", "info:" \o code)
    ELSE IF code \in AnonCodes
    THEN IF ~w.rem.creds
         THEN RaiseMsg(w, "PermissionsError", "info:" \o code)
         ELSE LoginAndRetry(w, params, tries)
    ELSE IF code \in ConflictCodes
    THEN RaiseMsg(InvalidateOnConflict(w), "EditConflictError", "info:" \o code)
    ELSE IF code \in EmptyCodes THEN RaiseMsg(w, "NoContentError", "info:" \o code)
    ELSE IF code = "contenttoobig"
    THEN RaiseMsg(w, "ContentTooBigError", "info:" \o code)
    ELSE IF code = "spamdetected"
    THEN RaiseMsg(w, "SpamDetectedError", "info:" \o code)
    ELSE RaiseMsg(w, "EditError", code \o ": info:" \o code)

\* Page._handle_edit_errors: raises, or returns what the retried _edit returns.
\* A handler that invalidates the cache whatever the code.
HandleEditErrorsInvalidating(w, code, params, tries) ==
    RaiseMsg(InvalidateOnConflict(w), "EditError", code \o ": info:" \o code)

HandleEditErrors(w, code, params, tries) ==
    IF code \in PermissionCodes THEN RaiseMsg(w, "PermissionsError", "info:" \o code)
    ELSE IF code \in AnonCodes
    THEN IF ~w.rem.creds
         THEN RaiseMsg(w, "PermissionsError", "info:" \o code)
         ELSE LoginAndRetry(w, params, tries)
    ELSE IF code \in ConflictCodes
    THEN RaiseMsg(InvalidateOnConflict(w), "EditConflictError", "info:" \o code)
    ELSE IF code \in EmptyCodes THEN RaiseMsg(w, "NoContentError", "info:" \o code)
    ELSE IF code = "contenttoobig"
    THEN RaiseMsg(w, "ContentTooBigError", "info:" \o code)
    ELSE IF code = "spamdetected"
    THEN RaiseMsg(w, "SpamDetectedError", "info:" \o code)
    ELSE IF code = "filtered" THEN RaiseMsg(w, "FilteredError", "info:" \o code)
    ELSE RaiseMsg(w, "EditError", code \o ": info:" \o code)

\* HandleAssertEdit without the test of the login information.
HandleAssertEditNoCheck(w, assertion, params, tries) ==
    IF assertion = "user" THEN LoginAndRetry(w, params, tries)
    ELSE IF assertion = "bot"
    THEN RaiseMsg(w, "PermissionsError", "AssertEdit: bot assertion failed")
    ELSE RaiseMsg(w, "PermissionsError",
                  "AssertEdit: assertion '" \o assertion \o "' failed.")

\* Page._handle_assert_edit
HandleAssertEdit(w, assertion, params, tries) ==
    IF assertion = "user"
    THEN IF ~w.rem.creds
         THEN RaiseMsg(w, "PermissionsError", "AssertEdit: user assertion failed")
         ELSE LoginAndRetry(w, params, tries)
    ELSE IF assertion = "bot"
    THEN RaiseMsg(w, "PermissionsError", "AssertEdit: bot assertion failed")
    ELSE RaiseMsg(w, "PermissionsError",
                  "AssertEdit: assertion '" \o assertion \o "' failed.")

\* _edit: "result = self._handle_edit_errors(...)" and the test of
\* result["edit"]["result"] that follows: the handler returned the None of the
\* retried _edit, which has no items.
ResultOfHandler(w) ==
    IF w.exc # "none" THEN w ELSE RaiseMsg(w, "TypeError", "result is None")

\* AfterAssertHandler using the handler's value as _edit uses the value of
\* _handle_edit_errors.
AfterAssertHandlerUsingResult(w) ==
    IF w.exc # "none" THEN w ELSE RaiseMsg(w, "TypeError", "result is None")

\* _edit: the call of _handle_assert_edit, whose value is dropped.
AfterAssertHandler(w) == IF w.exc # "none" THEN w ELSE Return(w, NoneVal)

\* ResetOnSuccess without the assignment to _exists.
ResetKeepingExists(w) == [w EXCEPT !.pg.content = NoneVal, !.pg.basets = NoTime]

\* ResetOnSuccess without the assignments to _content and _basetimestamp.
ResetKeepingContent(w) == [w EXCEPT !.pg.exists = ExistsUnknown]

\* _edit: "If everything was successful, reset invalidated attributes".
ResetOnSuccess(w) ==
    [w EXCEPT !.pg.content = NoneVal, !.pg.basets = NoTime,
              !.pg.exists = ExistsUnknown]

\* AfterSubmit submitting once more after an accepted first submission.
AfterSubmitTwice(w, out, params, tries) ==
    IF out.kind = "nocode" THEN RaiseMsg(w, "SiteAPIError", "no code")
    ELSE IF out.kind = "error"
    THEN ResultOfHandler(HandleEditErrors(w, out.code, params, tries))
    ELSE IF out.kind = "Success"
    THEN IF tries = 0
         THEN Retry(ResetOnSuccess(w), params)
         ELSE Return(ResetOnSuccess(w), NoneVal)
    ELSE IF out.kind = "assert"
    THEN AfterAssertHandler(HandleAssertEdit(w, out.code, params, tries))
    ELSE RaiseMsg(w, "EditError", "Failure")

\* What _edit does with the outcome of its submission.
AfterSubmit(w, out, params, tries) ==
    IF out.kind = "nocode" THEN RaiseMsg(w, "SiteAPIError", "no code")
    ELSE IF out.kind = "error"
    THEN ResultOfHandler(HandleEditErrors(w, out.code, params, tries))
    ELSE IF out.kind = "Success"
    THEN Return(ResetOnSuccess(w), NoneVal)
    ELSE IF out.kind = "assert"
    THEN AfterAssertHandler(HandleAssertEdit(w, out.code, params, tries))
    ELSE RaiseMsg(w, "EditError", "Failure")

\* _edit: the request p reaches the wiki, which answers out.
Submitted(w, p, out, tries) ==
    AfterSubmit(Logged([w EXCEPT !.rem = out.rem],
                       [p EXCEPT !.result = IF out.kind \in {"error", "assert"}
                                            THEN out.code ELSE out.kind]),
                out, p, tries)

\* _edit: "result = self._site.api_query(**params)"
Submit(w, p, tries) ==
    IF w.exc # "none" THEN w
    ELSE Submitted(w, p, RemoteSubmit(w.rem, p, w.vds[NumSubmits(w.log) + 1]), tries)

\* _edit, from the validity check on.
EditChecked(w, params, text, force, tries) ==
    IF w.exc # "none" THEN w
    ELSE Submit(Arrive(w),
                IF params.ev = "none"
                THEN BuildEditParams(w.pg, text, force)
                ELSE [params EXCEPT !.token = w.pg.token],
                tries)

\* EditWithToken without the second test of the token.
EditWithTokenUnchecked(w, params, text, force, tries) ==
    IF w.exc # "none" THEN w
    ELSE EditChecked(AssertValidity(w), params, text, force, tries)

\* _edit, once the token has been looked for.
EditWithToken(w, params, text, force, tries) ==
    IF w.exc # "none" THEN w
    ELSE IF w.pg.token = NoTime
    THEN RaiseMsg(w, "PermissionsError", "no permission to edit")
    ELSE EditChecked(AssertValidity(w), params, text, force, tries)

\* Page._edit
EditCall(w, params, text, force, tries) ==
    EditWithToken(IF w.pg.token = NoTime THEN LoadAttributes(w) ELSE w,
                  params, text, force, tries)

\* Page.edit / Page.add_section
Edit(w, text, force) == EditCall(w, NoParams, text, force, 0)

(***************************************************************************)
(* The read accessors.                                                     *)
(***************************************************************************)
\* An accessor that loads the attributes on every read.
LoadAlways(w) == Load(w)

LoadIfUnknown(w) == IF w.pg.exists = ExistsUnknown THEN Load(w) ELSE w

ExistsName(e) ==
    CASE e = ExistsUnknown -> "unknown"
      [] e = ExistsInvalid -> "invalid"
      [] e = ExistsMissing -> "missing"
      [] OTHER -> "exists"

ReturnExists(w) == IF w.exc # "none" THEN w ELSE Return(w, ExistsName(w.pg.exists))

\* Page.exists
ExistsProp(w) == ReturnExists(LoadIfUnknown(w))

ReturnPageid(w) == IF w.exc # "none" THEN w ELSE [w EXCEPT !.retn = w.pg.pageid]

\* Page.pageid
PageidProp(w) == ReturnPageid(AssertExistence(LoadIfUnknown(w)))

ReturnProtection(w) == IF w.exc # "none" THEN w ELSE Return(w, "protection")

\* Page.protection asserting existence as pageid does.
ProtectionPropStrict(w) == ReturnProtection(AssertExistence(LoadIfUnknown(w)))

\* Page.protection
ProtectionProp(w) == ReturnProtection(AssertValidity(LoadIfUnknown(w)))

ReturnIsRedirect(w) == IF w.exc # "none" THEN w ELSE Return(w, w.pg.is_redirect)

\* Page.is_redirect
IsRedirectProp(w) == ReturnIsRedirect(LoadIfUnknown(w))

\* Page.title
TitleProp(w) == Return(w, w.pg.title)

\* Page.namespace
NamespaceProp(w) == [w EXCEPT !.retn = w.pg.ns]

\* Page.is_talkpage
IsTalkpageProp(w) == Return(w, IF w.pg.talk THEN "True" ELSE "False")

\* Page.url always built from the title.
UrlPropLocal(w) == Return(w, "base/" \o w.pg.title)

\* Page.url: the URL the wiki gave, or one built from the title.
UrlProp(w) ==
    Return(w, IF w.pg.fullurl # NoneVal THEN w.pg.fullurl
              ELSE "base/" \o w.pg.title)

\* toggle_talk(), once the page is known to be in no special namespace: the
\* title of the page it returns.
ToggleTitle(new_prefix, body) ==
    IF new_prefix # "" THEN new_prefix \o ":" \o body ELSE body

\* Page.toggle_talk, up to the construction of the Page it returns.
ToggleTalk(w) ==
    IF w.pg.ns < 0 THEN Raise(w, "InvalidPageError")
    ELSE Return(w, ToggleTitle(NamespaceIdToName(IF w.pg.talk THEN w.pg.ns - 1
                                                  ELSE w.pg.ns + 1),
                               BodyOf(w.pg.title)))

\* toggle_talk: "return Page(self._site, new_title, follow_redirects)".
ToggledPage(w, follow_redirects) ==
    NewPage(w.ret, IF follow_redirects = "None" THEN w.pg.follow
                   ELSE follow_redirects = "True")

ReturnCreator(w) == IF w.exc # "none" THEN w ELSE Return(w, w.pg.creator)

\* get_creator(), after the first _assert_existence().
CreatorReload(w) ==
    IF w.exc # "none" THEN w
    ELSE IF w.pg.creator = NoneVal THEN AssertExistence(Load(w))
    ELSE w

\* Page.get_creator
GetCreator(w) == ReturnCreator(CreatorReload(AssertExistence(LoadIfUnknown(w))))

(***************************************************************************)
(* The system: the Page instances, the remote wiki, and an observer that   *)
(* records calls.  page[i] is the i-th Page instance.  The observer is     *)
(* idle (obs = "idle"), or has recorded one call in full in last           *)
(* (obs = "one"), or has kept a summary of a call in prev (obs = "first")  *)
(* and then records the call that follows it in full (obs = "two").  A     *)
(* call the observer does not record changes page and remote all the same. *)
(***************************************************************************)
\* The most remote calls one method makes.
MaxQueries == 5

Rights == [kind |-> "rights", title |-> "A", content |-> NoneVal]

\* The changes others can make to the page titled t: every new revision and
\* every deletion gets a later timestamp.
PageSteps(rem, t, contents) ==
    IF t \in RemoteTitles /\ rem.clock < MaxClock
    THEN {[kind |-> "edit", title |-> t, content |-> c] : c \in contents}
         \cup (IF rem.pages[t].st = "exists"
               THEN {[kind |-> "delete", title |-> t, content |-> NoneVal]}
               ELSE {})
    ELSE {}

\* The world in which a method of instance i starts: mid = <<iat, istep>> is the
\* change that lands before its iat-th remote call (none for iat = 0).
Start(i, mid, vds) ==
    [pg |-> page[i], rem |-> remote, log |-> <<>>, exc |-> "none", msg |-> "",
     ret |-> NoneVal, retn |-> 0, iat |-> mid[1], istep |-> mid[2], vds |-> vds]

NoMid == <<0, NoStep>>

\* The remote calls of a log that retrieve page content.
NumContentFetches(log) ==
    Cardinality({n \in 1..Len(log) : log[n].ev \in {"content", "combined"}})

NoCall ==
    [op |-> "none", inst |-> 0, force |-> FALSE, exc |-> "none", msg |-> "",
     ret |-> NoneVal, retn |-> 0, log |-> <<>>, pre |-> NewPage("A", FALSE),
     prerem |-> [clock |-> 0, canEdit |-> FALSE, creds |-> FALSE, ns |-> 0,
                 pages |-> [t \in RemoteTitles |-> RemotePage("missing", NoneVal, 0)]]]

\* What the observer keeps of the first call of a pair.
Summary(op, i, w) ==
    [op |-> op, inst |-> i, exc |-> w.exc, preexists |-> page[i].exists,
     fetches |-> NumContentFetches(w.log)]

NoSummary ==
    [op |-> "none", inst |-> 0, exc |-> "none", preexists |-> ExistsUnknown,
     fetches |-> 0]

Record(op, i, force, w) ==
    [op |-> op, inst |-> i, force |-> force, exc |-> w.exc, msg |-> w.msg,
     ret |-> w.ret, retn |-> w.retn, log |-> w.log, pre |-> page[i],
     prerem |-> remote]

\* What the observer does with the call op of instance i that ended in w.
Observe(op, i, force, w) ==
    /\ \/ obs = "idle" /\ UNCHANGED <<last, prev, obs>>
       \/ obs = "idle" /\ obs' = "one" /\ last' = Record(op, i, force, w)
                       /\ UNCHANGED prev
       \/ obs = "idle" /\ obs' = "first" /\ prev' = Summary(op, i, w)
                       /\ op \in {"get", "edit", "reload"}
                       /\ UNCHANGED last
       \/ obs = "first" /\ obs' = "two" /\ last' = Record(op, i, force, w)
                        /\ i = prev.inst
                        /\ UNCHANGED prev
    /\ UNCHANGED others

\* Method op of instance i has run to its end in world w.
Finish(op, i, force, w) ==
    /\ w.rem.clock <= MaxClock
    /\ page' = [page EXCEPT ![i] = w.pg]
    /\ remote' = w.rem
    /\ Observe(op, i, force, w)

\* toggle_talk() of instance i has run to its end in world w: the Page it
\* returns, if it returns one, is instance j from now on.
FinishToggle(i, j, follow_redirects, w) ==
    /\ page' = IF w.exc = "none"
               THEN [page EXCEPT ![i] = w.pg, ![j] = ToggledPage(w, follow_redirects)]
               ELSE [page EXCEPT ![i] = w.pg]
    /\ remote' = w.rem
    /\ Observe("toggle_talk", i, FALSE, w)

Calling == obs \in {"idle", "first"}

CallGet(i, mids) ==
    Calling /\ \E m \in mids : Finish("get", i, FALSE, Get(Start(i, m, <<>>)))

CallReload(i, mids) ==
    Calling /\ \E m \in mids : Finish("reload", i, FALSE, Reload(Start(i, m, <<>>)))

CallExists(i, mids) ==
    Calling /\ \E m \in mids : Finish("exists", i, FALSE, ExistsProp(Start(i, m, <<>>)))

CallPageid(i, mids) ==
    Calling /\ \E m \in mids : Finish("pageid", i, FALSE, PageidProp(Start(i, m, <<>>)))

CallProtection(i, mids) ==
    Calling /\ \E m \in mids :
        Finish("protection", i, FALSE, ProtectionProp(Start(i, m, <<>>)))

CallIsRedirect(i, mids) ==
    Calling /\ \E m \in mids :
        Finish("is_redirect", i, FALSE, IsRedirectProp(Start(i, m, <<>>)))

CallGetRedirectTarget(i, mids) ==
    Calling /\ \E m \in mids :
        Finish("get_redirect_target", i, FALSE, GetRedirectTarget(Start(i, m, <<>>)))

CallGetCreator(i, mids) ==
    Calling /\ \E m \in mids :
        Finish("get_creator", i, FALSE, GetCreator(Start(i, m, <<>>)))

CallTitle(i) == Calling /\ Finish("title", i, FALSE, TitleProp(Start(i, NoMid, <<>>)))

CallNamespace(i) ==
    Calling /\ Finish("namespace", i, FALSE, NamespaceProp(Start(i, NoMid, <<>>)))

CallIsTalkpage(i) ==
    Calling /\ Finish("is_talkpage", i, FALSE, IsTalkpageProp(Start(i, NoMid, <<>>)))

CallUrl(i) == Calling /\ Finish("url", i, FALSE, UrlProp(Start(i, NoMid, <<>>)))

\* Page.toggle_talk of instance i, with each value of its follow_redirects.
CallToggleTalk(i, j) ==
    Calling /\ \E f \in {"None", "True", "False"} :
        FinishToggle(i, j, f, ToggleTalk(Start(i, NoMid, <<>>)))

\* Page.edit with the remote's verdicts on its submissions drawn from vpairs.
CallEdit(i, mids, vpairs, texts) ==
    Calling /\ \E m \in mids, vds \in vpairs, force \in BOOLEAN, text \in texts :
        Finish("edit", i, force, Edit(Start(i, m, vds), text, force))

\* Another editor, an administrator or the clock changes the remote.
Environment(steps) ==
    /\ Calling
    /\ \E s \in steps : remote' = EnvApply(remote, s)
    /\ UNCHANGED <<page, last, prev, obs>>
    /\ UNCHANGED others

\* The observer drops what it recorded.
Forget ==
    /\ obs \in {"one", "two"}
    /\ obs' = "idle"
    /\ last' = NoCall
    /\ prev' = NoSummary
    /\ UNCHANGED <<page, remote>>
    /\ UNCHANGED others

\* The state after construction of the instances, before any call.
InitWith(pgs, rems) ==
    /\ page \in pgs
    /\ remote \in rems
    /\ last = NoCall
    /\ prev = NoSummary
    /\ obs = "idle"
    /\ bot = NotRun
    /\ conn = NotRun
    /\ tagger = NotRun

Remotes(rights, creds, contentsA, contentsB) ==
    {[clock |-> 0, canEdit |-> ce, creds |-> cr, ns |-> 0,
      pages |-> [t \in RemoteTitles |-> IF t = "A" THEN a ELSE b]] :
        ce \in rights, cr \in creds,
        a \in {RemotePage("missing", NoneVal, 0)}
              \cup {RemotePage("exists", c, 0) : c \in contentsA},
        b \in {RemotePage("missing", NoneVal, 0)}
              \cup {RemotePage("exists", c, 0) : c \in contentsB}}

(***************************************************************************)
(* Spec: one Page, constructed with any title and either follow_redirects  *)
(* value, read through every accessor and method and edited, while others  *)
(* change the page it points at.                                           *)
(***************************************************************************)
\* A change that lands before the first remote call of a method is a change
\* made before the method was called: see Environment.
Mids(steps) == {NoMid} \cup {<<n, s>> : n \in 2..MaxQueries, s \in steps}

Here == Norm(page[1].title)

ReadMids == Mids(PageSteps(remote, Here, {"text"}))

Init ==
    InitWith({[i \in {1, 2} |-> IF i = 1 THEN NewPage(t, f) ELSE NewPage("A", FALSE)] :
                 t \in Titles, f \in BOOLEAN},
             Remotes({TRUE}, {TRUE}, ForeignContents("A"), ForeignContents("B")))

Next ==
    \/ CallGet(1, ReadMids)
    \/ CallReload(1, ReadMids)
    \/ CallExists(1, ReadMids)
    \/ CallPageid(1, ReadMids)
    \/ CallProtection(1, ReadMids)
    \/ CallIsRedirect(1, ReadMids)
    \/ CallGetRedirectTarget(1, ReadMids)
    \/ CallGetCreator(1, ReadMids)
    \/ CallEdit(1, {NoMid}, {<<"ok", "ok">>, <<"noedit", "ok">>, <<"assert:user", "ok">>},
                OwnTexts)
    \/ Environment(PageSteps(remote, Here, ForeignContents(Here)))
    \/ Forget

Spec == Init /\ [][Next]_vars

(***************************************************************************)
(* SpecEdit: one Page that follows no redirect, on a valid or an invalid   *)
(* title, edited under every verdict of the remote on the first and on the *)
(* retried submission, with and without login information, while others    *)
(* edit and delete the page and the right to edit comes and goes.          *)
(***************************************************************************)
\* The verdicts on the first submission and on the retried one.
VerdictPairs ==
    {<<v, "ok">> : v \in Verdicts}
    \cup {<<v1, v2>> : v1 \in {"noedit-anon", "assert:user"},
                       v2 \in {"noedit", "cantcreate-anon", "assert:user", "assert:bot"}}

EditMids == Mids(PageSteps(remote, Here, {"text"}) \cup {Rights})

InitEdit ==
    InitWith({[i \in {1, 2} |-> IF i = 1 THEN NewPage(t, FALSE) ELSE NewPage("A", FALSE)] :
                 t \in {"A", "Bad"}},
             Remotes(BOOLEAN, BOOLEAN, {"text"}, {}))

NextEdit ==
    \/ CallGet(1, {NoMid})
    \/ CallExists(1, {NoMid})
    \/ CallEdit(1, EditMids, VerdictPairs, OwnTexts)
    \/ Environment(PageSteps(remote, Here, {"text"}) \cup {Rights})
    \/ Forget

SpecEdit == InitEdit /\ [][NextEdit]_vars

(***************************************************************************)
(* SpecTwo: two Page instances on the same title, each reading and editing *)
(* it, against a remote that rejects an edit only for a conflict.          *)
(***************************************************************************)
InitTwo ==
    InitWith({[i \in {1, 2} |-> NewPage("A", FALSE)]},
             Remotes({TRUE}, {TRUE}, {"text"}, {}))

NextTwo ==
    \/ CallGet(1, {NoMid})
    \/ CallGet(2, {NoMid})
    \/ CallReload(2, {NoMid})
    \/ CallEdit(1, {NoMid}, {<<"ok", "ok">>}, {"one"})
    \/ CallEdit(2, {NoMid}, {<<"ok", "ok">>}, {"two"})
    \/ Environment(PageSteps(remote, "A", {}))
    \/ Forget

SpecTwo == InitTwo /\ [][NextTwo]_vars

(***************************************************************************)
(* SpecCodes: one Page on an existing title, edited under every error code *)
(* the remote can answer the first submission or the retried one with.     *)
(***************************************************************************)
\* The codes _handle_edit_errors names, bar the anonymous-permission ones,
\* and two it does not name.
AllCodes ==
    PermissionCodes \cup ConflictCodes \cup EmptyCodes
    \cup {"contenttoobig", "spamdetected", "filtered", "badtoken", "ratelimited"}

\* A code or a plain failure on the first submission, or on the one retried
\* after a failed "user" assertion.
CodePairs ==
    {<<c, "ok">> : c \in AllCodes \cup {"Failure"}}
    \cup {<<"assert:user", c>> : c \in AllCodes \cup {"Failure"}}

InitCodes ==
    InitWith({[i \in {1, 2} |-> NewPage("A", FALSE)]},
             Remotes({TRUE}, {TRUE}, {"text"}, {}))

NextCodes ==
    \/ CallExists(1, {NoMid})
    \/ CallGet(1, {NoMid})
    \/ CallEdit(1, {NoMid}, CodePairs, OwnTexts)
    \/ Forget

SpecCodes == InitCodes /\ [][NextCodes]_vars

(***************************************************************************)
(* SpecAttrs: one Page constructed with a plain, a prefixed or an invalid  *)
(* title, read through every accessor, the local ones included, on a wiki  *)
(* that reports any namespace for its pages; a page in a negative          *)
(* namespace does not exist.                                               *)
(***************************************************************************)
\* The namespace ids the wiki may report.
NsValues == {0 - 2, 0 - 1, 0, 1, 2, 3}

InitAttrs ==
    /\ InitWith({[i \in {1, 2} |-> IF i = 1 THEN NewPage(t, FALSE) ELSE NewPage("A", FALSE)] :
                    t \in Titles \cup PrefixedTitles \cup PaddedTitles},
                {[r EXCEPT !.ns = n] :
                    r \in Remotes({TRUE}, {TRUE}, {"text"}, {}), n \in NsValues})
    /\ remote.ns < 0 => remote.pages["A"].st = "missing"

NextAttrs ==
    \/ CallTitle(1)
    \/ CallNamespace(1)
    \/ CallIsTalkpage(1)
    \/ CallUrl(1)
    \/ CallToggleTalk(1, 2)
    \/ CallExists(1, {NoMid})
    \/ CallPageid(1, {NoMid})
    \/ CallProtection(1, {NoMid})
    \/ CallIsRedirect(1, {NoMid})
    \/ CallGet(1, {NoMid})
    \/ CallGetRedirectTarget(1, {NoMid})
    \/ CallGetCreator(1, {NoMid})
    \/ CallReload(1, {NoMid})
    \/ Forget

SpecAttrs == InitAttrs /\ [][NextAttrs]_vars

(***************************************************************************)
(* SpecTalk: a Page constructed with a title of the main, the Talk, the    *)
(* User, the User talk or the Special namespace, or of the main namespace  *)
(* with a colon in it; toggle_talk() on it gives a second Page, and        *)
(* toggle_talk() on the second Page replaces it by the Page it returns.    *)
(***************************************************************************)
TalkTitles ==
    Titles \cup PrefixedTitles \cup {"User:A", "User talk:A", "Talk:a", "User:Bad"}

InitTalk ==
    InitWith({[i \in {1, 2} |-> IF i = 1 THEN NewPage(t, f) ELSE NewPage("A", FALSE)] :
                 t \in TalkTitles, f \in BOOLEAN},
             Remotes({TRUE}, {TRUE}, {"text"}, {}))

NextTalk ==
    \/ CallToggleTalk(1, 2)
    \/ CallToggleTalk(2, 2)
    \/ CallTitle(1)
    \/ CallTitle(2)
    \/ CallNamespace(1)
    \/ CallNamespace(2)
    \/ CallIsTalkpage(1)
    \/ CallIsTalkpage(2)
    \/ Forget

SpecTalk == InitTalk /\ [][NextTalk]_vars

(***************************************************************************)
(* SpecFail: one Page, constructed with a valid or an invalid title and    *)
(* either follow_redirects value, read through every accessor and method   *)
(* and edited, on a wiki nobody else changes, where any one remote call of *)
(* a method may fail.                                                      *)
(***************************************************************************)
\* No failure, or the failure of the n-th remote call of the method.
FailMids == {NoMid} \cup {<<n, FailStep>> : n \in 1..MaxQueries}

InitFail ==
    InitWith({[i \in {1, 2} |-> IF i = 1 THEN NewPage(t, f) ELSE NewPage("A", FALSE)] :
                 t \in {"A", "Bad"}, f \in BOOLEAN},
             Remotes({TRUE}, {TRUE}, ForeignContents("A"), {"text", Redir("A")}))

NextFail ==
    \/ CallGet(1, FailMids)
    \/ CallReload(1, FailMids)
    \/ CallExists(1, FailMids)
    \/ CallPageid(1, FailMids)
    \/ CallProtection(1, FailMids)
    \/ CallIsRedirect(1, FailMids)
    \/ CallGetRedirectTarget(1, FailMids)
    \/ CallGetCreator(1, FailMids)
    \/ CallEdit(1, FailMids, {<<"ok", "ok">>, <<"editconflict", "ok">>, <<"assert:user", "ok">>},
                OwnTexts)
    \/ Forget

SpecFail == InitFail /\ [][NextFail]_vars

(***************************************************************************)
(* Reading the observer's record.                                          *)
(***************************************************************************)
Traced == obs \in {"one", "two"}

\* The second of two calls made in succession on one instance is on record.
Paired(op1, op2) == obs = "two" /\ prev.op = op1 /\ last.op = op2

\* The edit submissions of a log, in order.
Subs(log) == SelectSeq(log, LAMBDA e : e.ev = "submit")

NumEv(log, evs) == Cardinality({n \in 1..Len(log) : log[n].ev \in evs})

\* The Page the recorded call ran on, as the call left it.
Now == page[last.inst]

\* The success reset of _edit has been applied.
ResetApplied ==
    Now.exists = ExistsUnknown /\ Now.content = NoneVal /\ Now.basets = NoTime

(***************************************************************************)
(* C1. When the first submission of an edit is rejected with an            *)
(* anonymous-permission code and login information is configured, the call *)
(* logs in exactly once and, the token fetched again, submits exactly once *)
(* more; if the remote accepts the retried submission the call returns     *)
(* normally, with the success reset applied.                               *)
(***************************************************************************)
C1_RetryAcceptedReturns ==
    (/\ Traced
     /\ last.op = "edit"
     /\ last.prerem.creds
     /\ Len(Subs(last.log)) >= 1
     /\ Subs(last.log)[1].result \in AnonCodes)
    => /\ NumEv(last.log, {"login"}) = 1
       /\ Len(Subs(last.log)) <= 2
       /\ \A k \in 1..Len(last.log) :
             (last.log[k].ev = "meta" /\ k > 1 /\ last.log[k].token # NoTime)
             => Len(Subs(last.log)) = 2
       /\ (Len(Subs(last.log)) = 2 /\ Subs(last.log)[2].result = "Success")
          => (last.exc = "none" /\ ResetApplied)

(***************************************************************************)
(* C2. Whatever the remote answers, one edit call logs in at most once,    *)
(* submits at most twice (the second time only after the login), makes at  *)
(* most five remote calls, and raises LoginError when the retried          *)
(* submission is again rejected for a session reason.                      *)
(***************************************************************************)
C2_BoundedRetry ==
    (Traced /\ last.op = "edit")
    => /\ NumEv(last.log, {"login"}) <= 1
       /\ Len(Subs(last.log)) <= 2
       /\ Len(Subs(last.log)) = 2 => NumEv(last.log, {"login"}) = 1
       /\ Len(last.log) <= 5
       /\ (/\ Len(Subs(last.log)) = 2
           /\ Subs(last.log)[2].result \in AnonCodes \cup {"user"})
          => last.exc = "LoginError"

C2_Witness ==
    /\ Traced
    /\ last.op = "edit"
    /\ Len(Subs(last.log)) = 2
    /\ Subs(last.log)[1].result \in AnonCodes
    /\ Subs(last.log)[2].result = "user"
    /\ last.exc = "LoginError"

(***************************************************************************)
(* C3. A submission rejected with a conflict-family code is the last       *)
(* remote call of the edit: the call raises EditConflictError with the     *)
(* cached content and base timestamp cleared and the existence state       *)
(* Unknown; the get() that follows queries the remote and returns the      *)
(* content that query fetched.                                             *)
(***************************************************************************)
C3_ConflictInvalidates ==
    /\ (/\ Traced
        /\ last.op = "edit"
        /\ \E n \in 1..Len(last.log) :
              last.log[n].ev = "submit" /\ last.log[n].result \in ConflictCodes)
       => /\ last.log[Len(last.log)].ev = "submit"
          /\ last.log[Len(last.log)].result \in ConflictCodes
          /\ last.exc = "EditConflictError"
          /\ ResetApplied
    /\ (Paired("edit", "get") /\ prev.exc = "EditConflictError" /\ last.exc = "none")
       => /\ Len(last.log) >= 1
          /\ last.log[Len(last.log)].ev \in {"content", "combined"}
          /\ last.ret = last.log[Len(last.log)].text
          /\ Now.basets = last.log[Len(last.log)].base

C3_Witness ==
    /\ Paired("edit", "get")
    /\ prev.exc = "EditConflictError"
    /\ last.exc = "none"
    /\ last.ret = remote.pages[Norm(Now.title)].content
    /\ last.ret # NoneVal

(***************************************************************************)
(* C4. P2 has read the page, P1's edit has then been accepted, and P2 has  *)
(* not read since: P2's edit without force raises EditConflictError and    *)
(* leaves the remote page as P1 wrote it; with force it overwrites it.     *)
(***************************************************************************)
StaleSecondEdit ==
    /\ Traced
    /\ last.op = "edit"
    /\ last.inst = 2
    /\ last.pre.content # NoneVal
    /\ last.pre.basets # NoTime
    /\ last.prerem.pages["A"].content = "one"
    /\ last.pre.basets < last.prerem.pages["A"].ts

C4_StaleEditRejected ==
    StaleSecondEdit
    => IF last.force
       THEN last.exc = "none" /\ remote.pages["A"].content = "two"
       ELSE /\ last.exc = "EditConflictError"
            /\ remote.pages["A"] = last.prerem.pages["A"]

C4_Witness == StaleSecondEdit /\ ~last.force /\ last.exc = "EditConflictError"

(***************************************************************************)
(* C5 as stated: two get() calls in succession make at most one content    *)
(* fetch between them, and the second makes no remote call and returns     *)
(* what the first returned.                                                *)
(***************************************************************************)
C5_AtMostOneFetch ==
    (Paired("get", "get") /\ prev.exc = "none")
    => /\ prev.fetches + NumContentFetches(last.log) <= 1
       /\ Len(last.log) = 0
       /\ last.exc = "none"
       /\ last.ret = last.pre.content

(***************************************************************************)
(* C5. When the first of two get() calls in succession returned content,   *)
(* the second makes no remote call, returns the same content and changes   *)
(* nothing; when it returned None, the second starts with a content fetch; *)
(* a get() makes one content fetch at most for each title it visits, so    *)
(* two at most and two only when it follows a redirect.                    *)
(***************************************************************************)
C5_SecondGetCached ==
    /\ (Paired("get", "get") /\ prev.exc = "none" /\ last.pre.content # NoneVal)
       => /\ Len(last.log) = 0
          /\ last.exc = "none"
          /\ last.ret = last.pre.content
          /\ Now = last.pre
          /\ prev.fetches <= 2
    /\ (Paired("get", "get") /\ prev.exc = "none" /\ last.pre.content = NoneVal)
       => (Len(last.log) >= 1 /\ last.log[1].ev = "content")
    /\ (Traced /\ last.op = "get")
       => NumContentFetches(last.log)
             <= (IF Now.hops > last.pre.hops THEN 2 ELSE 1)

C5_Witness ==
    /\ Paired("get", "get")
    /\ prev.exc = "none"
    /\ prev.fetches = 2
    /\ last.pre.content # NoneVal
    /\ last.ret = last.pre.content
    /\ Len(last.log) = 0

(***************************************************************************)
(* C6 as stated: reload() on a page whose content was never fetched makes  *)
(* no content-retrieving query and leaves the cached content absent.       *)
(***************************************************************************)
C6_ReloadNeverFetches ==
    (Traced /\ last.op = "reload" /\ last.pre.content = NoneVal)
    => NumContentFetches(last.log) = 0 /\ Now.content = NoneVal

(***************************************************************************)
(* C6. reload() on a page with no cached content makes a content-          *)
(* retrieving query only to follow a redirect (the page still follows      *)
(* redirects and the remote reports it as one), and then only one;         *)
(* whenever it returns normally the cached content is absent, and when it  *)
(* raises RedirectError the content it fetched stays cached.               *)
(***************************************************************************)
C6_ReloadFetchesOnlyToFollow ==
    (Traced /\ last.op = "reload" /\ last.pre.content = NoneVal)
    => /\ ~(last.pre.keep /\ last.log[1].result = "redirect")
          => (NumContentFetches(last.log) = 0 /\ Now.content = NoneVal)
       /\ NumContentFetches(last.log) <= 1
       /\ last.exc = "none" => Now.content = NoneVal
       /\ last.exc = "RedirectError" => Now.content # NoneVal

C6_Witness ==
    /\ Traced
    /\ last.op = "reload"
    /\ last.pre.content = NoneVal
    /\ last.pre.follow
    /\ ~last.pre.keep
    /\ last.log[1].result = "redirect"
    /\ last.exc = "none"
    /\ Now.content = NoneVal

(***************************************************************************)
(* C7. An edit() on a page whose existence state was Missing has           *)
(* succeeded; the edit() that follows it on the same instance, with no     *)
(* read between them, submits, and submits without createonly.             *)
(***************************************************************************)
C7_NoCreateGuardAfterSuccess ==
    (/\ Paired("edit", "edit")
     /\ prev.exc = "none"
     /\ prev.preexists = ExistsMissing)
    => /\ last.pre.exists = ExistsUnknown
       /\ Len(Subs(last.log)) >= 1
       /\ \A n \in 1..Len(last.log) :
             last.log[n].ev = "submit" => ~last.log[n].createonly

C7_Witness ==
    /\ Paired("edit", "edit")
    /\ prev.exc = "none"
    /\ prev.preexists = ExistsMissing
    /\ ~last.force
    /\ last.exc = "none"
    /\ Subs(last.log)[1].result = "Success"
    /\ ~Subs(last.log)[1].createonly

(***************************************************************************)
(* C8. A Page made for title A with follow-redirects on, A a redirect      *)
(* whose content is a redirect marker to B, B an existing page that is not *)
(* a redirect, and nobody else changing the wiki meanwhile: the first      *)
(* get() sets the title to B and returns B's content, with two metadata    *)
(* fetches (A, then B) and at most two content fetches.                    *)
(***************************************************************************)
FirstGetOfRedirect ==
    /\ Traced
    /\ last.op = "get"
    /\ last.pre = NewPage("A", TRUE)
    /\ last.prerem.pages["A"] = RemotePage("exists", Redir("B"), last.prerem.pages["A"].ts)
    /\ last.prerem.pages["B"].st = "exists"
    /\ ~WikiIsRedirect(last.prerem.pages["B"].content)
    /\ remote = last.prerem

C8_GetFollowsToTarget ==
    FirstGetOfRedirect
    => /\ last.exc = "none"
       /\ Now.title = "B"
       /\ last.ret = remote.pages["B"].content
       /\ last.ret # remote.pages["A"].content
       /\ NumEv(last.log, {"meta", "combined"}) = 2
       /\ last.log[1].title = "A"
       /\ last.log[2].title = "B"
       /\ NumContentFetches(last.log) <= 2

C8_Witness == FirstGetOfRedirect /\ last.ret = "text" /\ Now.title = "B"

(***************************************************************************)
(* C9. Over any sequence of operations an instance re-targets its title at *)
(* most once, and once it has, it follows no redirect any more: its title  *)
(* stays, whatever the new title redirects to.  Every operation ends after *)
(* five remote calls at most.                                              *)
(***************************************************************************)
C9_OneHop ==
    /\ \A i \in DOMAIN page :
          page[i].hops <= 1 /\ (page[i].hops = 1 => ~page[i].keep)
    /\ Traced
       => /\ Len(last.log) <= 5
          /\ last.pre.hops = 1 => Now.title = last.pre.title

C9_Witness ==
    /\ Traced
    /\ last.op \in {"get", "reload"}
    /\ last.pre.hops = 1
    /\ last.exc = "none"
    /\ Len(last.log) >= 1
    /\ last.log[1].result = "redirect"
    /\ Now.title = last.pre.title
    /\ Now.title = "B"
    /\ ReFindallRedirect(remote.pages["B"].content) = {"A"}
    /\ ReFindallRedirect(remote.pages["A"].content) = {"B"}

(***************************************************************************)
(* C10. edit() on a page whose existence state is already Invalid raises   *)
(* InvalidPageError and makes no remote call.                              *)
(***************************************************************************)
C10_InvalidEditFailsFast ==
    (Traced /\ last.op = "edit" /\ last.pre.exists = ExistsInvalid)
    => (last.exc = "InvalidPageError" /\ Len(last.log) = 0)

(***************************************************************************)
(* C11. After edit() has returned normally the cached edit token is        *)
(* absent, and the edit() that follows on the same instance starts by      *)
(* fetching a token: no submission reuses the token of a successful one.   *)
(***************************************************************************)
C11_TokenClearedOnSuccess ==
    /\ (Traced /\ last.op = "edit" /\ last.exc = "none") => Now.token = NoTime
    /\ (Paired("edit", "edit") /\ prev.exc = "none")
       => (Len(last.log) >= 1 /\ last.log[1].ev = "meta")

(***************************************************************************)
(* C12. After edit() has returned normally the existence state is Unknown  *)
(* and the cached content and base timestamp are absent; the accessor or   *)
(* get() that follows on the same instance starts with a query that brings *)
(* the attributes, and a get() that returns gives what its last            *)
(* content-bearing query fetched.                                          *)
(***************************************************************************)
ReadOps ==
    {"get", "exists", "pageid", "protection", "is_redirect",
     "get_redirect_target", "get_creator"}

C12_SuccessResets ==
    /\ (Traced /\ last.op = "edit" /\ last.exc = "none") => ResetApplied
    /\ (obs = "two" /\ prev.op = "edit" /\ prev.exc = "none" /\ last.op \in ReadOps)
       => /\ last.pre.exists = ExistsUnknown
          /\ last.pre.content = NoneVal
          /\ Len(last.log) >= 1
          /\ last.log[1].ev = (IF last.op \in {"get", "get_redirect_target"}
                               THEN "combined" ELSE "meta")
          /\ (last.op = "get" /\ last.exc = "none" /\ last.ret # NoneVal)
             => \E n \in 1..Len(last.log) :
                   /\ last.log[n].ev \in {"content", "combined"}
                   /\ last.ret = last.log[n].text
                   /\ \A k \in (n + 1)..Len(last.log) :
                         last.log[k].ev \notin {"content", "combined"}

C12_Witness ==
    /\ obs = "two"
    /\ prev.op = "edit"
    /\ prev.exc = "none"
    /\ prev.preexists = ExistsYes
    /\ last.op = "get"
    /\ last.exc = "none"
    /\ last.ret = "mine"
    /\ last.log[1].ev = "combined"

(***************************************************************************)
(* C13. The exception an edit raises for the error code of its last        *)
(* submission follows the table: the permission codes give                 *)
(* PermissionsError, the conflict codes EditConflictError, the empty-text  *)
(* codes NoContentError, contenttoobig ContentTooBigError, spamdetected    *)
(* SpamDetectedError, filtered FilteredError, any other code EditError     *)
(* with the code and the remote's detail in its message, and a failure     *)
(* with no assertion EditError.                                            *)
(***************************************************************************)
TableException(code) ==
    CASE code \in {"noedit", "cantcreate", "protectedtitle", "noimageredirect"}
            -> "PermissionsError"
      [] code \in {"editconflict", "pagedeleted", "articleexists"}
            -> "EditConflictError"
      [] code \in {"emptypage", "emptynewsection"} -> "NoContentError"
      [] code = "contenttoobig" -> "ContentTooBigError"
      [] code = "spamdetected" -> "SpamDetectedError"
      [] code = "filtered" -> "FilteredError"
      [] OTHER -> "EditError"

LastEvent == last.log[Len(last.log)]

RejectedWithCode ==
    /\ Traced
    /\ last.op = "edit"
    /\ Len(last.log) >= 1
    /\ LastEvent.ev = "submit"
    /\ LastEvent.result \in AllCodes \cup {"Failure"}

C13_ErrorTable ==
    RejectedWithCode
    => /\ last.exc = TableException(LastEvent.result)
       /\ (LastEvent.result \in {"badtoken", "ratelimited"})
          => last.msg = LastEvent.result \o ": info:" \o LastEvent.result

C13_Witness ==
    /\ RejectedWithCode
    /\ Len(Subs(last.log)) = 2
    /\ LastEvent.result = "filtered"
    /\ last.exc = "FilteredError"

(***************************************************************************)
(* C14. With no complete login information, an edit whose first submission *)
(* is rejected with an anonymous-permission code or a failed "user"        *)
(* assertion raises PermissionsError after that one submission: no login,  *)
(* no retry, no further remote call.                                       *)
(***************************************************************************)
FirstRejectedForSession ==
    /\ Traced
    /\ last.op = "edit"
    /\ Len(Subs(last.log)) >= 1
    /\ Subs(last.log)[1].result \in AnonCodes \cup {"user"}

C14_NoCredentialsNoRetry ==
    (FirstRejectedForSession /\ ~last.prerem.creds)
    => /\ last.exc = "PermissionsError"
       /\ Len(Subs(last.log)) = 1
       /\ NumEv(last.log, {"login"}) = 0
       /\ LastEvent.ev = "submit"

C14_Witness ==
    /\ FirstRejectedForSession
    /\ ~last.prerem.creds
    /\ Subs(last.log)[1].result = "user"
    /\ last.exc = "PermissionsError"

(***************************************************************************)
(* C15. A submission answered with a failed assertion: "user", with login  *)
(* information, on the first attempt, makes the edit log in once and, the  *)
(* token fetched again, submit once more; the edit then raises LoginError  *)
(* if that submission fails for a session reason and returns normally if   *)
(* it is accepted.  "bot" raises PermissionsError with no login and no     *)
(* retry; any other value raises PermissionsError with the value in the    *)
(* message.                                                                *)
(***************************************************************************)
FirstAssertion(values) ==
    /\ Traced
    /\ last.op = "edit"
    /\ Len(Subs(last.log)) >= 1
    /\ Subs(last.log)[1].result \in values

C15_AssertionHandling ==
    /\ (FirstAssertion({"user"}) /\ last.prerem.creds)
       => /\ NumEv(last.log, {"login"}) = 1
          /\ Len(Subs(last.log)) <= 2
          /\ \A k \in 1..Len(last.log) :
                (last.log[k].ev = "meta" /\ k > 1 /\ last.log[k].token # NoTime)
                => Len(Subs(last.log)) = 2
          /\ (/\ Len(Subs(last.log)) = 2
              /\ Subs(last.log)[2].result \in AnonCodes \cup {"user"})
             => last.exc = "LoginError"
          /\ (Len(Subs(last.log)) = 2 /\ Subs(last.log)[2].result = "Success")
             => (last.exc = "none" /\ ResetApplied)
    /\ FirstAssertion({"bot"})
       => /\ last.exc = "PermissionsError"
          /\ last.msg = "AssertEdit: bot assertion failed"
          /\ Len(Subs(last.log)) = 1
          /\ NumEv(last.log, {"login"}) = 0
    /\ FirstAssertion({"exists"})
       => /\ last.exc = "PermissionsError"
          /\ last.msg = "AssertEdit: assertion 'exists' failed."
          /\ Len(Subs(last.log)) = 1
          /\ NumEv(last.log, {"login"}) = 0

C15_Witness ==
    /\ FirstAssertion({"user"})
    /\ last.prerem.creds
    /\ Len(Subs(last.log)) = 2
    /\ Subs(last.log)[2].result = "Success"
    /\ last.exc = "none"

(***************************************************************************)
(* C16. get() never returns normally with absent content: when its         *)
(* content query finds no revision it fetches the attributes once more and *)
(* raises PageNotFoundError, whatever that fetch answers.                  *)
(***************************************************************************)
C16_GetNeverReturnsNone ==
    /\ (Traced /\ last.op = "get" /\ last.exc = "none") => last.ret # NoneVal
    /\ (/\ Traced
        /\ last.op = "get"
        /\ \E n \in 1..Len(last.log) :
              last.log[n].ev = "content" /\ last.log[n].text = NoneVal)
       => /\ last.exc = "PageNotFoundError"
          /\ LastEvent.ev = "meta"

(***************************************************************************)
(* C17. In every state of a Page, after construction and after any         *)
(* metadata fetch whatever namespace the wiki reports, is_talkpage is true *)
(* exactly when the namespace is non-negative and odd.                     *)
(***************************************************************************)
C17_TalkpageIffOddNamespace ==
    \A i \in DOMAIN page :
        page[i].talk <=> (page[i].ns >= 0 /\ page[i].ns % 2 = 1)

(***************************************************************************)
(* C18. On a page whose state is Invalid, or Unknown with the first query  *)
(* of the call answering that the title is invalid, pageid, protection,    *)
(* get(), get_redirect_target() and get_creator() raise InvalidPageError   *)
(* and return nothing; on an Invalid page title, namespace, is_talkpage    *)
(* and url return their values with no error, no remote call and no        *)
(* change to the Page.                                                     *)
(***************************************************************************)
InvalidCase ==
    /\ Traced
    /\ \/ last.pre.exists = ExistsInvalid
       \/ /\ last.pre.exists = ExistsUnknown
          /\ Len(last.log) >= 1
          /\ last.log[1].result = "invalid"

C18_InvalidAccessors ==
    /\ (/\ InvalidCase
        /\ last.op \in {"pageid", "protection", "get", "get_redirect_target",
                        "get_creator"})
       => /\ last.exc = "InvalidPageError"
          /\ last.ret = NoneVal
          /\ last.retn = 0
          /\ Now.exists = ExistsInvalid
    /\ (/\ Traced
        /\ last.pre.exists = ExistsInvalid
        /\ last.op \in {"title", "namespace", "is_talkpage", "url"})
       => /\ last.exc = "none"
          /\ Len(last.log) = 0
          /\ Now = last.pre
          /\ last.op = "title" => last.ret = last.pre.title
          /\ last.op = "namespace" => last.retn = last.pre.ns
          /\ last.op = "is_talkpage" => last.ret \in {"True", "False"}
          /\ last.op = "url" => last.ret = "base/" \o last.pre.title

C18_Witness ==
    /\ InvalidCase
    /\ last.pre.exists = ExistsInvalid
    /\ last.op = "get_creator"
    /\ last.exc = "InvalidPageError"

(***************************************************************************)
(* C19. On a page whose state is Missing, or Unknown with the first query  *)
(* of the call answering that the page is missing, pageid, get(),          *)
(* get_redirect_target() and get_creator() raise PageNotFoundError and     *)
(* return nothing, pageid not even the negative id; edit() on a Missing    *)
(* page is not refused for it and submits.                                 *)
(***************************************************************************)
MissingCase ==
    /\ Traced
    /\ \/ last.pre.exists = ExistsMissing
       \/ /\ last.pre.exists = ExistsUnknown
          /\ Len(last.log) >= 1
          /\ last.log[1].result = "missing"

C19_MissingAccessors ==
    /\ (/\ MissingCase
        /\ last.op \in {"pageid", "get", "get_redirect_target", "get_creator"})
       => /\ last.exc = "PageNotFoundError"
          /\ last.ret = NoneVal
          /\ last.retn = 0
    /\ (Traced /\ last.pre.exists = ExistsMissing /\ last.op = "edit")
       => /\ last.exc \notin {"PageNotFoundError", "InvalidPageError"}
          /\ Len(Subs(last.log)) >= 1

C19_Witness ==
    /\ MissingCase
    /\ last.pre.exists = ExistsUnknown
    /\ last.op = "pageid"
    /\ last.exc = "PageNotFoundError"
    /\ Now.pageid < 0

(***************************************************************************)
(* C20 as stated: reading protection on a page whose state is Missing      *)
(* raises PageNotFoundError.                                               *)
(***************************************************************************)
C20_ProtectionRequiresExistence ==
    (Traced /\ last.op = "protection" /\ last.pre.exists = ExistsMissing)
    => last.exc = "PageNotFoundError"

(***************************************************************************)
(* C20. protection requires a valid title, not an existing page: on a page *)
(* whose state is Missing it returns the protection status with no remote  *)
(* call, on a page whose state is Invalid it raises InvalidPageError, and  *)
(* it never raises PageNotFoundError for the page it is read on.           *)
(***************************************************************************)
C20_ProtectionRequiresValidity ==
    (Traced /\ last.op = "protection")
    => /\ last.pre.exists = ExistsMissing
          => (last.exc = "none" /\ last.ret = "protection" /\ Len(last.log) = 0)
       /\ last.pre.exists = ExistsYes
          => (last.exc = "none" /\ last.ret = "protection" /\ Len(last.log) = 0)
       /\ last.pre.exists = ExistsInvalid
          => (last.exc = "InvalidPageError" /\ Len(last.log) = 0)
       /\ (last.pre.exists = ExistsUnknown /\ ~last.pre.keep)
          => /\ Len(last.log) = 1
             /\ IF last.log[1].result = "invalid"
                THEN last.exc = "InvalidPageError"
                ELSE last.exc = "none" /\ last.ret = "protection"

C20_Witness ==
    /\ Traced
    /\ last.op = "protection"
    /\ last.pre.exists = ExistsUnknown
    /\ last.log[1].result = "missing"
    /\ Now.exists = ExistsMissing
    /\ last.exc = "none"
    /\ last.ret = "protection"

(***************************************************************************)
(* C21 as stated: the existence state leaves Unknown only when a metadata  *)
(* fetch completes, goes from a known value back to Unknown only inside an *)
(* edit (on an accepted submission or a conflict-family rejection), and no *)
(* read operation leaves it Unknown once a metadata fetch has completed    *)
(* inside it, whichever remote call of the operation fails.                *)
(***************************************************************************)
\* A metadata fetch has completed inside the recorded call.
MetaCompleted == \E n \in 1..Len(last.log) : last.log[n].ev \in {"meta", "combined"}

LeavesUnknownByFetch ==
    (Traced /\ last.pre.exists = ExistsUnknown /\ Now.exists # ExistsUnknown)
    => MetaCompleted

ForgetsOnlyInEdit ==
    (Traced /\ last.pre.exists # ExistsUnknown /\ Now.exists = ExistsUnknown)
    => /\ last.op = "edit"
       /\ \E n \in 1..Len(last.log) :
             /\ last.log[n].ev = "submit"
             /\ last.log[n].result \in {"Success"} \cup ConflictCodes

C21_ReadsNeverForget ==
    /\ LeavesUnknownByFetch
    /\ ForgetsOnlyInEdit
    /\ (Traced /\ last.op # "edit" /\ MetaCompleted) => Now.exists # ExistsUnknown

(***************************************************************************)
(* C21. The existence state leaves Unknown only when a metadata fetch      *)
(* completes, and a call that starts with a known state ends Unknown only  *)
(* if it is an edit with an accepted submission or a conflict-family       *)
(* rejection.  A get(), called directly or by get_redirect_target(), that  *)
(* follows a redirect sets the state back to Unknown once it has           *)
(* re-targeted the title: the state is known again when the query under    *)
(* the new title completes and stays Unknown when that query fails.  No    *)
(* other read leaves the state Unknown once a metadata fetch has completed *)
(* inside it.                                                              *)
(***************************************************************************)
C21_OnlyEditAndFollowingGetForget ==
    /\ LeavesUnknownByFetch
    /\ ForgetsOnlyInEdit
    /\ (Traced /\ last.op # "edit" /\ MetaCompleted /\ Now.exists = ExistsUnknown)
       => /\ last.op \in {"get", "get_redirect_target"}
          /\ last.pre.keep
          /\ Now.hops = last.pre.hops + 1
          /\ Now.title # last.pre.title
          /\ LastEvent.ev = "failed"
          /\ last.exc = "SiteAPIError"
    /\ (Traced /\ last.op = "get" /\ Now.hops > last.pre.hops /\ last.exc = "none")
       => /\ NumEv(last.log, {"combined"}) = 2
          /\ Now.exists = ExistsYes

C21_Witness ==
    /\ Traced
    /\ last.op = "get"
    /\ last.pre.exists = ExistsUnknown
    /\ last.log[1].ev = "combined"
    /\ Now.hops = 1
    /\ Now.title = "B"
    /\ LastEvent.ev = "failed"
    /\ Now.exists = ExistsUnknown

(***************************************************************************)
(* C22. A call of any accessor, get(), reload(), edit() or add_section()   *)
(* on a Page whose existence state is Invalid leaves the state Invalid and *)
(* the title as it was, whether it queries the remote again (reload, edit  *)
(* with no token), fails in doing so, or raises at once.                   *)
(***************************************************************************)
C22_InvalidIsTerminal ==
    (Traced /\ last.pre.exists = ExistsInvalid)
    => /\ Now.title = last.pre.title
       /\ Now.exists = ExistsInvalid

C22_Witness ==
    /\ Traced
    /\ last.op = "reload"
    /\ last.pre.exists = ExistsInvalid
    /\ Len(last.log) = 1
    /\ last.log[1].result = "invalid"
    /\ last.exc = "none"
    /\ Now.exists = ExistsInvalid

(***************************************************************************)
(* C23. title, namespace, is_talkpage, url and toggle_talk() make no       *)
(* remote call and change nothing of the Page they are called on (state,   *)
(* cached content, token) nor of the wiki; the Page toggle_talk() returns  *)
(* is constructed with no remote call, its state Unknown, no content, no   *)
(* token; url returns the URL the wiki gave once a metadata fetch has      *)
(* found the page existing or missing, and before that, or on an invalid   *)
(* title, a URL built from the title.                                      *)
(***************************************************************************)
LocalOps == {"title", "namespace", "is_talkpage", "url", "toggle_talk"}

C23_LocalOpsNoQuery ==
    /\ (Traced /\ last.op \in LocalOps)
       => /\ Len(last.log) = 0
          /\ Now.exists = last.pre.exists
          /\ Now.content = last.pre.content
          /\ Now.token = last.pre.token
          /\ Now = last.pre
          /\ remote = last.prerem
    /\ (Traced /\ last.op = "toggle_talk" /\ last.exc = "none")
       => /\ page[2].title = last.ret
          /\ page[2].exists = ExistsUnknown
          /\ page[2].content = NoneVal
          /\ page[2].token = NoTime
          /\ page[2].fullurl = NoneVal
    /\ (Traced /\ last.op = "url")
       => /\ last.exc = "none"
          /\ last.pre.exists \in {ExistsMissing, ExistsYes}
             => last.ret = "url:" \o last.pre.title
          /\ last.pre.exists \in {ExistsUnknown, ExistsInvalid}
             => last.ret = "base/" \o last.pre.title

C23_Witness ==
    /\ Traced
    /\ last.op = "url"
    /\ last.pre.exists = ExistsMissing
    /\ last.pre.token # NoTime
    /\ last.ret = "url:A"
    /\ Now = last.pre

(***************************************************************************)
(* C24. A Page as its constructor leaves it: when its title begins with a  *)
(* prefix that is no known namespace, its namespace is 0 and is_talkpage   *)
(* is false; when its title contains no colon, its namespace is 0.         *)
(***************************************************************************)
\* No metadata fetch has touched the Page since its construction.
AsConstructed(p) ==
    p.exists = ExistsUnknown /\ p.fullurl = NoneVal /\ p.token = NoTime

C24_UnknownPrefixNamespaceZero ==
    \A i \in DOMAIN page :
        AsConstructed(page[i])
        => /\ (HasPrefix(page[i].title) /\ PrefixOf(page[i].title) \notin KnownPrefixes)
              => (page[i].ns = 0 /\ ~page[i].talk)
           /\ ~HasPrefix(page[i].title) => page[i].ns = 0

(***************************************************************************)
(* C25. A call has come to resolve a redirect (get() from the Unknown      *)
(* state or an accessor, reload() or get_creator() through _load(), on a   *)
(* Page that still follows redirects and whose metadata, fetched in the    *)
(* call, marks it as a redirect; or get_redirect_target() on any Page      *)
(* marked as a redirect) and the content it holds of the page has no       *)
(* redirect target the pattern finds: the call raises RedirectError and    *)
(* the title stays what the last metadata fetch made it (what it was, if   *)
(* the call fetched none).                                                 *)
(***************************************************************************)
\* The operations that follow a redirect of themselves.
FollowingOps ==
    {"get", "exists", "pageid", "protection", "is_redirect", "get_creator",
     "reload", "get_redirect_target"}

\* The title as the last metadata fetch of the recorded call left it.
TitleBeforeResolution ==
    IF MetaCompleted
    THEN Norm(last.log[CHOOSE n \in 1..Len(last.log) :
                          /\ last.log[n].ev \in {"meta", "combined"}
                          /\ \A k \in (n + 1)..Len(last.log) :
                                last.log[k].ev \notin {"meta", "combined"}].title)
    ELSE last.pre.title

UnparsedRedirect ==
    /\ Traced
    /\ Now.is_redirect = "yes"
    /\ Now.content # NoneVal
    /\ ReFindallRedirect(Now.content) = {}
    /\ \/ last.op = "get_redirect_target"
       \/ last.op \in FollowingOps /\ Now.keep /\ MetaCompleted

C25_UnparsedRedirectFails ==
    UnparsedRedirect
    => /\ last.exc = "RedirectError"
       /\ Now.title = TitleBeforeResolution
       /\ Now.hops = last.pre.hops \/ last.op = "get_redirect_target"

C25_Witness ==
    /\ UnparsedRedirect
    /\ last.op = "reload"
    /\ last.pre.title = "A"
    /\ last.log[1].result = "redirect"
    /\ Now.content = OddRedir("B")
    /\ last.exc = "RedirectError"
    /\ Now.title = "A"

(***************************************************************************)
(* C26. Every submission of an edit without force, the one retried after a *)
(* login included, carries as starttimestamp the time at which the token   *)
(* it carries was obtained (a token is the remote clock at its issue).     *)
(***************************************************************************)
C26_StartIsTokenTime ==
    (Traced /\ last.op = "edit" /\ ~last.force)
    => \A n \in 1..Len(last.log) :
          last.log[n].ev = "submit"
          => (last.log[n].hasstart /\ last.log[n].start = last.log[n].token)

(***************************************************************************)
(* C27. A Page with no cached content has no cached base timestamp, and an *)
(* edit without force submits a basetimestamp only if the Page held        *)
(* content, fetched under the title submitted, when the edit was called.   *)
(***************************************************************************)
C27_BaseOnlyWithContent ==
    /\ \A i \in DOMAIN page :
          page[i].content = NoneVal => page[i].basets = NoTime
    /\ (Traced /\ last.op = "edit" /\ ~last.force)
       => \A n \in 1..Len(last.log) :
             (last.log[n].ev = "submit" /\ last.log[n].base # NoTime)
             => /\ last.pre.content # NoneVal
                /\ last.log[n].base = last.pre.basets
                /\ last.log[n].title = last.pre.title

(***************************************************************************)
(* C28. In one edit()/add_section() call the remote accepts one submission *)
(* at most; an accepted submission is the last remote call of the edit;    *)
(* and a second submission is sent only when the first was rejected with   *)
(* an anonymous-permission code or answered with a failed "user"           *)
(* assertion.                                                              *)
(***************************************************************************)
Accepted(log) ==
    {n \in 1..Len(log) : log[n].ev = "submit" /\ log[n].result = "Success"}

C28_AtMostOneAccepted ==
    (Traced /\ last.op = "edit")
    => /\ Cardinality(Accepted(last.log)) <= 1
       /\ \A n \in Accepted(last.log) : n = Len(last.log)
       /\ Len(Subs(last.log)) <= 2
       /\ Len(Subs(last.log)) = 2
          => Subs(last.log)[1].result \in AnonCodes \cup {"user"}

C28_Witness ==
    /\ Traced
    /\ last.op = "edit"
    /\ Len(Subs(last.log)) = 2
    /\ Subs(last.log)[1].result \in AnonCodes
    /\ Accepted(last.log) = {Len(last.log)}
    /\ remote.pages["A"].content = "mine"

(***************************************************************************)
(* C29 as stated: with nobody else changing the wiki during the call, an   *)
(* access that follows one redirect makes at most twice the remote queries *)
(* the same access makes on a page that is no redirect: one for an         *)
(* accessor, get_creator() or get() that has to load, one for reload()     *)
(* and one more when content is cached.                                    *)
(***************************************************************************)
LoadingOps ==
    {"get", "exists", "pageid", "protection", "is_redirect", "get_creator", "reload"}

\* The remote queries of the recorded access when it meets no redirect.
UnfollowedCost ==
    IF last.op = "reload" /\ last.pre.content # NoneVal THEN 2 ELSE 1

\* The recorded access has followed a redirect, the wiki unchanged meanwhile.
Followed ==
    /\ Traced
    /\ last.op \in LoadingOps
    /\ Now.hops = last.pre.hops + 1
    /\ remote = last.prerem

\* The recorded access has loaded a page that is no redirect.
Unfollowed ==
    /\ Traced
    /\ last.op \in LoadingOps
    /\ Len(last.log) >= 1
    /\ last.log[1].ev \in {"meta", "combined"}
    /\ last.log[1].result = "page"
    /\ remote = last.prerem

C29_FollowCostsTwice ==
    /\ Unfollowed => Len(last.log) = UnfollowedCost
    /\ Followed => Len(last.log) <= 2 * UnfollowedCost

(***************************************************************************)
(* C29. With nobody else changing the wiki during the call, a get() that   *)
(* follows one redirect makes two remote queries, twice what it makes on a *)
(* page that is no redirect; an accessor, reload() or get_creator() that   *)
(* follows one through _load() makes three at most (the attributes, the    *)
(* content of the redirect unless it is cached, the attributes under the   *)
(* new title), where it makes one on a page that is no redirect, and two   *)
(* for a reload() with content cached.                                     *)
(***************************************************************************)
C29_FollowCostsThree ==
    /\ Unfollowed => Len(last.log) = UnfollowedCost
    /\ Followed
       => IF last.op = "get"
          THEN Len(last.log) = 2
          ELSE /\ Len(last.log) = (IF last.pre.content # NoneVal THEN 2 ELSE 3)
               /\ last.log[1].ev = "meta"
               /\ last.log[Len(last.log)].ev = "meta"

C29_Witness ==
    /\ Followed
    /\ last.op = "exists"
    /\ last.exc = "none"
    /\ Len(last.log) = 3
    /\ last.log[2].ev = "content"
    /\ Now.title = "B"

(***************************************************************************)
(* C30. An edit()/add_section() called with no cached token starts with    *)
(* one metadata fetch; when that fetch brings no token the call raises     *)
(* PermissionsError with no further remote call and no submission, and     *)
(* when it brings one the submission is the next remote call; an edit      *)
(* called with a cached token starts with the submission.                  *)
(***************************************************************************)
C30_TokenPrecondition ==
    /\ (Traced /\ last.op = "edit" /\ last.pre.token = NoTime)
       => /\ Len(last.log) >= 1
          /\ last.log[1].ev = "meta"
          /\ IF last.log[1].token = NoTime
             THEN /\ Len(last.log) = 1
                  /\ last.exc = "PermissionsError"
                  /\ remote = last.prerem
             ELSE Len(last.log) >= 2 /\ last.log[2].ev = "submit"
    /\ (Traced /\ last.op = "edit" /\ last.pre.token # NoTime)
       => (Len(last.log) >= 1 /\ last.log[1].ev = "submit")

C30_Witness ==
    /\ Traced
    /\ last.op = "edit"
    /\ last.pre.token = NoTime
    /\ last.pre.title = "A"
    /\ Len(last.log) = 1
    /\ last.log[1].ev = "meta"
    /\ last.log[1].token = NoTime
    /\ last.exc = "PermissionsError"

(***************************************************************************)
(* C31. The first submission of an edit carries the request as it was      *)
(* built from force and the Page's state at that moment: without force it  *)
(* has starttimestamp, has basetimestamp exactly when a base timestamp is  *)
(* cached (and then that one), has createonly exactly when the existence   *)
(* state is Missing, and has no recreate; with force it has recreate and   *)
(* none of the three.  No submission has both createonly and recreate.     *)
(***************************************************************************)
\* The existence state when the request of the recorded edit was built: the one
\* the edit started with, or the one its token fetch brought.
ExistsAtBuild ==
    IF last.pre.token # NoTime THEN last.pre.exists
    ELSE CASE last.log[1].result = "missing" -> ExistsMissing
           [] last.log[1].result = "invalid" -> ExistsInvalid
           [] OTHER -> ExistsYes

FirstSub == Subs(last.log)[1]

C31_GuardsFromForceAndState ==
    (Traced /\ last.op = "edit" /\ Len(Subs(last.log)) >= 1)
    => /\ ~last.force
          => /\ FirstSub.hasstart
             /\ FirstSub.start = last.pre.startts \/ last.pre.token = NoTime
             /\ FirstSub.base = last.pre.basets
             /\ FirstSub.createonly <=> (ExistsAtBuild = ExistsMissing)
             /\ ~FirstSub.recreate
       /\ last.force
          => /\ FirstSub.recreate
             /\ ~FirstSub.hasstart
             /\ FirstSub.start = NoTime
             /\ FirstSub.base = NoTime
             /\ ~FirstSub.createonly
       /\ \A n \in 1..Len(last.log) :
             last.log[n].ev = "submit"
             => ~(last.log[n].createonly /\ last.log[n].recreate)

C31_Witness ==
    /\ Traced
    /\ last.op = "edit"
    /\ ~last.force
    /\ last.pre.token # NoTime
    /\ last.pre.exists = ExistsMissing
    /\ last.pre.basets # NoTime
    /\ FirstSub.createonly
    /\ FirstSub.base = last.pre.basets

(***************************************************************************)
(* C32. In an edit that logs in, the login comes straight after a          *)
(* submission rejected with an anonymous-permission code or answered with  *)
(* a failed "user" assertion, and one metadata fetch comes straight after  *)
(* the login.  When that fetch brings a token, the retried submission is   *)
(* the next and last remote call and carries that token; when it brings    *)
(* none, the edit raises PermissionsError with no second submission and    *)
(* the Page is left with no token, the old one invalidated.                *)
(***************************************************************************)
\* The position of the login in the log of the recorded edit.
LoginAt == CHOOSE k \in 1..Len(last.log) : last.log[k].ev = "login"

LoggedIn == Traced /\ last.op = "edit" /\ NumEv(last.log, {"login"}) >= 1

C32_LoginRetryOrder ==
    LoggedIn
    => /\ LoginAt >= 2
       /\ last.log[LoginAt - 1].ev = "submit"
       /\ last.log[LoginAt - 1].result \in AnonCodes \cup {"user"}
       /\ Len(last.log) >= LoginAt + 1
       /\ last.log[LoginAt + 1].ev = "meta"
       /\ IF last.log[LoginAt + 1].token = NoTime
          THEN /\ Len(last.log) = LoginAt + 1
               /\ last.exc = "PermissionsError"
               /\ Now.token = NoTime
          ELSE /\ Len(last.log) = LoginAt + 2
               /\ last.log[LoginAt + 2].ev = "submit"
               /\ last.log[LoginAt + 2].token = last.log[LoginAt + 1].token

C32_Witness ==
    /\ LoggedIn
    /\ Len(last.log) = LoginAt + 2
    /\ last.log[LoginAt + 2].ev = "submit"
    /\ last.log[LoginAt + 2].token = last.log[LoginAt + 1].token
    /\ last.log[LoginAt + 2].token # last.log[LoginAt - 1].token

(***************************************************************************)
(* C33. reload() on a Page with cached content, the remote page existing   *)
(* and no redirect and nobody changing the wiki during the call, makes one *)
(* metadata fetch and then one content fetch, and caches what the content  *)
(* fetch brought; the get() that follows a reload() that found the page    *)
(* existing and has left content cached makes no remote call and returns   *)
(* that content.                                                           *)
(***************************************************************************)
ReloadOfCached ==
    /\ Traced
    /\ last.op = "reload"
    /\ last.pre.content # NoneVal
    /\ Len(last.log) >= 1
    /\ last.log[1].result = "page"
    /\ remote = last.prerem

C33_ReloadRefetchesCached ==
    /\ ReloadOfCached
       => /\ Len(last.log) = 2
          /\ last.log[1].ev = "meta"
          /\ last.log[2].ev = "content"
          /\ last.exc = "none"
          /\ Now.content = last.log[2].text
          /\ Now.content = remote.pages[Now.title].content
          /\ Now.basets = last.log[2].base
    /\ (/\ Paired("reload", "get")
        /\ prev.exc = "none"
        /\ last.pre.exists = ExistsYes
        /\ last.pre.content # NoneVal)
       => /\ prev.fetches = 1
          /\ Len(last.log) = 0
          /\ last.exc = "none"
          /\ last.ret = last.pre.content

C33_Witness ==
    /\ ReloadOfCached
    /\ Len(last.log) = 2
    /\ last.pre.content # "text"
    /\ Now.content = "text"

(***************************************************************************)
(* C34. exists, pageid, protection and is_redirect make a remote query     *)
(* exactly when the existence state is Unknown at the call.  get() in      *)
(* state Unknown on an existing page that is no redirect, nobody changing  *)
(* the wiki during the call, makes one combined query and leaves the page  *)
(* known to exist with its content cached; called after such a get(), the  *)
(* accessors and get() make no remote query.                               *)
(***************************************************************************)
LoadingAccessors == {"exists", "pageid", "protection", "is_redirect"}

GetOfUnknown ==
    /\ Traced
    /\ last.op = "get"
    /\ last.pre.exists = ExistsUnknown
    /\ Len(last.log) >= 1
    /\ last.log[1].result = "page"
    /\ remote = last.prerem

C34_QueryIffUnknown ==
    /\ (Traced /\ last.op \in LoadingAccessors)
       => (Len(last.log) >= 1 <=> last.pre.exists = ExistsUnknown)
    /\ GetOfUnknown
       => /\ Len(last.log) = 1
          /\ last.log[1].ev = "combined"
          /\ last.exc = "none"
          /\ Now.exists = ExistsYes
          /\ Now.content = last.ret
          /\ Now.content # NoneVal
    /\ (/\ obs = "two"
        /\ prev.op = "get"
        /\ prev.preexists = ExistsUnknown
        /\ prev.exc = "none"
        /\ last.pre.exists = ExistsYes
        /\ last.op \in LoadingAccessors \cup {"get"})
       => /\ Len(last.log) = 0
          /\ last.op = "get" => last.ret = last.pre.content /\ last.ret # NoneVal

C34_Witness ==
    /\ obs = "two"
    /\ prev.op = "get"
    /\ prev.preexists = ExistsUnknown
    /\ prev.fetches = 1
    /\ last.op = "pageid"
    /\ last.pre.exists = ExistsYes
    /\ last.pre.is_redirect = "no"
    /\ Len(last.log) = 0
    /\ last.exc = "none"

(***************************************************************************)
(* C35. An edit called with a token cached, whose one submission the       *)
(* remote rejects with a permission, empty-text, too-big, spam, filter or  *)
(* unrecognized code, raises with the Page's title, existence state,       *)
(* cached content, base timestamp, start timestamp and token as they were  *)
(* at the call.                                                            *)
(***************************************************************************)
FramedCodes == AllCodes \ ConflictCodes

RejectedOnce ==
    /\ Traced
    /\ last.op = "edit"
    /\ last.pre.token # NoTime
    /\ Len(last.log) = 1
    /\ last.log[1].ev = "submit"
    /\ last.log[1].result \in FramedCodes

C35_RejectionFrame ==
    RejectedOnce
    => /\ last.exc # "none"
       /\ Now.title = last.pre.title
       /\ Now.exists = last.pre.exists
       /\ Now.content = last.pre.content
       /\ Now.basets = last.pre.basets
       /\ Now.startts = last.pre.startts
       /\ Now.token = last.pre.token

C35_Witness ==
    /\ RejectedOnce
    /\ last.log[1].result = "contenttoobig"
    /\ last.pre.content = "text"
    /\ last.pre.exists = ExistsYes
    /\ Now.content = "text"
    /\ Now.token # NoTime

(***************************************************************************)
(* C36. When a call on a Page that still follows redirects is told by a    *)
(* metadata fetch that the page is a redirect, the content the target is   *)
(* parsed from comes with that fetch or from the content fetch right after *)
(* it, never from the cache; so reload() on such a Page with content       *)
(* cached, whose remote page is now a redirect to B, ends with the title   *)
(* B and raises no RedirectError.                                          *)
(***************************************************************************)
FollowsInCall ==
    /\ Traced
    /\ last.op # "edit"
    /\ last.pre.keep
    /\ Len(last.log) >= 1
    /\ last.log[1].ev \in {"meta", "combined"}
    /\ last.log[1].result = "redirect"

ReloadOfNewRedirect ==
    /\ FollowsInCall
    /\ last.op = "reload"
    /\ last.pre.content # NoneVal
    /\ last.prerem.pages[Norm(last.pre.title)].content = Redir("B")
    /\ remote = last.prerem

C36_TargetFromFreshContent ==
    /\ FollowsInCall
       => \/ last.log[1].ev = "combined"
          \/ Len(last.log) >= 2 /\ last.log[2].ev = "content"
    /\ ReloadOfNewRedirect
       => /\ last.exc # "RedirectError"
          /\ Now.title = "B"

(***************************************************************************)
(* C37. Take a Page as its constructor leaves it, in a namespace that is   *)
(* not negative: the Page toggle_talk() returns for the Page toggle_talk() *)
(* returns for it has its title and its namespace, a title of the main     *)
(* namespace with a colon in it included.  On a Page in a negative         *)
(* namespace toggle_talk() raises InvalidPageError.                        *)
(***************************************************************************)
\* Instance 2 has just been replaced by its own talk (or content) page, and
\* was the Page toggle_talk() returns for instance 1.
ToggledTwice ==
    /\ Traced
    /\ last.op = "toggle_talk"
    /\ last.inst = 2
    /\ last.exc = "none"
    /\ page[1] = NewPage(page[1].title, page[1].follow)
    /\ page[1].ns >= 0
    /\ ToggleTalk(Start(1, NoMid, <<>>)).exc = "none"
    /\ last.pre = NewPage(ToggleTalk(Start(1, NoMid, <<>>)).ret, last.pre.follow)

C37_ToggleTwiceRoundTrips ==
    /\ ToggledTwice
       => /\ page[2].title = page[1].title
          /\ page[2].ns = page[1].ns
    /\ (Traced /\ last.op = "toggle_talk" /\ last.pre.ns < 0)
       => last.exc = "InvalidPageError"

(***************************************************************************)
(* The Bot (earwigbot.bot.Bot): the thread in run() starts the IRC         *)
(* components and then watches them, restarting under component_lock one   *)
(* that has stopped; another thread calls stop() once the components are   *)
(* started.  Every step below is one statement of one of the two threads,  *)
(* so the threads interleave at every statement.  A running component can  *)
(* lose its server at any time.                                            *)
(***************************************************************************)
\* A Frontend or a Watcher: none yet, its loop running, stopped, or a
\* replacement whose loop was never started.
ComponentStates == {"None", "running", "stopped", "new"}

\* Bot.__init__, with config.components as loaded.
NewBot(irc_frontend, irc_watcher) ==
    [components |-> [irc_frontend |-> irc_frontend, irc_watcher |-> irc_watcher],
     frontend |-> "None", watcher |-> "None",
     component_lock |-> "free", keep_looping |-> TRUE,
     run |-> "start_frontend", stop |-> "idle", exc |-> "none",
     irc_stopped |-> FALSE, replaced_after_stop |-> FALSE]

\* component.stop(msg)
StopComponent(c) == IF c = "None" THEN c ELSE "stopped"

\* component and component.is_stopped()
IsStopped(c) == c = "stopped"

BotStep(b) == bot' = b /\ UNCHANGED <<pagevars, conn, tagger>>

\* run(): _start_irc_components(), the frontend.
RunStartFrontend ==
    /\ bot.run = "start_frontend"
    /\ BotStep([bot EXCEPT !.run = "start_watcher",
                           !.frontend = IF bot.components.irc_frontend
                                        THEN "running" ELSE @])

\* run(): _start_irc_components(), the watcher; _start_wiki_scheduler().
RunStartWatcher ==
    /\ bot.run = "start_watcher"
    /\ BotStep([bot EXCEPT !.run = "loop",
                           !.watcher = IF bot.components.irc_watcher
                                       THEN "running" ELSE @])

\* run(): "while self._keep_looping:"
RunLoopTest ==
    /\ bot.run = "loop"
    /\ BotStep([bot EXCEPT !.run = IF bot.keep_looping THEN "lock" ELSE "returned"])

\* run(): "with self.component_lock:"
RunAcquire ==
    /\ bot.run = "lock"
    /\ bot.component_lock = "free"
    /\ BotStep([bot EXCEPT !.run = "check_frontend", !.component_lock = "run"])

\* run(): the frontend test; a stopped frontend is replaced, and the Thread
\* call that follows names a variable that does not exist.
RunCheckFrontend ==
    /\ bot.run = "check_frontend"
    /\ BotStep(IF IsStopped(bot.frontend)
               THEN [bot EXCEPT !.frontend = "new", !.run = "raised",
                                !.exc = "NameError", !.component_lock = "free",
                                !.replaced_after_stop = @ \/ bot.irc_stopped]
               ELSE [bot EXCEPT !.run = "check_watcher"])

\* run(): the watcher test, and the end of the with block.
RunCheckWatcher ==
    /\ bot.run = "check_watcher"
    /\ BotStep(IF IsStopped(bot.watcher)
               THEN [bot EXCEPT !.watcher = "new", !.run = "raised",
                                !.exc = "NameError", !.component_lock = "free",
                                !.replaced_after_stop = @ \/ bot.irc_stopped]
               ELSE [bot EXCEPT !.run = "sleep", !.component_lock = "free"])

\* run(): "sleep(2)"
RunSleep ==
    /\ bot.run = "sleep"
    /\ BotStep([bot EXCEPT !.run = "loop"])

\* stop() is called, once the components are started.
StopCall ==
    /\ bot.stop = "idle"
    /\ bot.run \notin {"start_frontend", "start_watcher"}
    /\ BotStep([bot EXCEPT !.stop = "lock"])

\* stop(): "with self.component_lock:"
StopAcquire ==
    /\ bot.stop = "lock"
    /\ bot.component_lock = "free"
    /\ BotStep([bot EXCEPT !.stop = "stop_frontend", !.component_lock = "stop"])

\* stop(): _stop_irc_components, the frontend.
StopFrontend ==
    /\ bot.stop = "stop_frontend"
    /\ BotStep([bot EXCEPT !.stop = "stop_watcher",
                           !.frontend = StopComponent(@)])

\* stop(): _stop_irc_components, the watcher, and the end of the with block.
StopWatcher ==
    /\ bot.stop = "stop_watcher"
    /\ BotStep([bot EXCEPT !.stop = "flag", !.watcher = StopComponent(@),
                           !.component_lock = "free", !.irc_stopped = TRUE])

\* stop(): "self._keep_looping = False"
StopFlag ==
    /\ bot.stop = "flag"
    /\ BotStep([bot EXCEPT !.stop = "tasks", !.keep_looping = FALSE])

\* stop(): _stop_task_threads(), which only logs.
StopTaskThreads ==
    /\ bot.stop = "tasks"
    /\ BotStep([bot EXCEPT !.stop = "returned"])

\* A running component loses its server.
Disconnect ==
    /\ \/ bot.frontend = "running" /\ BotStep([bot EXCEPT !.frontend = "stopped"])
       \/ bot.watcher = "running" /\ BotStep([bot EXCEPT !.watcher = "stopped"])

InitBot ==
    /\ page = [i \in {1, 2} |-> NewPage("A", FALSE)]
    /\ remote \in Remotes({TRUE}, {TRUE}, {}, {})
    /\ last = NoCall
    /\ prev = NoSummary
    /\ obs = "idle"
    /\ bot \in {NewBot(f, w) : f, w \in BOOLEAN}
    /\ conn = NotRun
    /\ tagger = NotRun

NextBot ==
    \/ RunStartFrontend
    \/ RunStartWatcher
    \/ RunLoopTest
    \/ RunAcquire
    \/ RunCheckFrontend
    \/ RunCheckWatcher
    \/ RunSleep
    \/ StopCall
    \/ StopAcquire
    \/ StopFrontend
    \/ StopWatcher
    \/ StopFlag
    \/ StopTaskThreads
    \/ Disconnect

SpecBot == InitBot /\ [][NextBot]_vars

(***************************************************************************)
(* C38. Once stop() has stopped the IRC components, run() creates no       *)
(* replacement Frontend or Watcher, however the two threads interleave;    *)
(* and after stop() has returned no IRC component is running.              *)
(***************************************************************************)
C38_NoRestartAfterStop ==
    /\ ~bot.replaced_after_stop
    /\ bot.stop = "returned"
       => bot.frontend # "running" /\ bot.watcher # "running"

(***************************************************************************)
(* An IRCConnection (earwigbot.irc.connection) and the threads that send   *)
(* on it.  A thread calls one of the send operations, which formats its    *)
(* message and calls _send; _send takes _lock, hands the message with its  *)
(* line terminator to sendall, logs and releases the lock.  sendall puts   *)
(* the data on the socket in pieces, here the message and then its         *)
(* terminator, and other threads run between the pieces.                   *)
(***************************************************************************)
Threads == {1, 2, 3}

NoThread == 0

\* The line each send operation hands to _send.
SendOps ==
    [say |-> "PRIVMSG target :msg", reply |-> "PRIVMSG chan :nick: msg",
     action |-> "PRIVMSG target :ACTION msg", notice |-> "NOTICE target :msg",
     join |-> "JOIN chan", part |-> "PART chan", mode |-> "MODE chan level msg",
     pong |-> "PONG target"]

Terminator == "\r\n"

\* IRCConnection.__init__, and no thread sending.
NewConnection ==
    [lock |-> NoThread, pc |-> [t \in Threads |-> "idle"],
     msg |-> [t \in Threads |-> NoneVal], sock |-> <<>>, sent |-> 0]

\* A lock that excludes nobody.
AcquirableAlways(c) == TRUE

\* "with self._lock:" can be entered.
Acquirable(c) == c.lock = NoThread

ConnStep(c) == conn' = c /\ UNCHANGED <<pagevars, bot, tagger>>

\* say, reply, action, notice, join, part, mode or pong, up to its call of _send.
CallSend(t) ==
    /\ conn.pc[t] = "idle"
    /\ conn.sent < MaxSent
    /\ \E op \in DOMAIN SendOps :
          ConnStep([conn EXCEPT !.pc[t] = "lock", !.msg[t] = SendOps[op],
                                !.sent = @ + 1])

\* _send: "with self._lock:"
SendAcquire(t) ==
    /\ conn.pc[t] = "lock"
    /\ Acquirable(conn)
    /\ ConnStep([conn EXCEPT !.pc[t] = "sendall", !.lock = t])

\* _send: sendall(msg + "\r\n"), the message reaches the socket.
SendMessage(t) ==
    /\ conn.pc[t] = "sendall"
    /\ ConnStep([conn EXCEPT !.pc[t] = "partial",
                             !.sock = Append(@, [by |-> t, data |-> conn.msg[t]])])

\* _send: sendall(msg + "\r\n"), the terminator reaches the socket.
SendTerminator(t) ==
    /\ conn.pc[t] = "partial"
    /\ ConnStep([conn EXCEPT !.pc[t] = "debug",
                             !.sock = Append(@, [by |-> t, data |-> Terminator])])

\* _send: logger.debug(msg) and the end of the with block.
SendRelease(t) ==
    /\ conn.pc[t] = "debug"
    /\ ConnStep([conn EXCEPT !.pc[t] = "idle", !.msg[t] = NoneVal,
                             !.lock = NoThread])

InitConn ==
    /\ page = [i \in {1, 2} |-> NewPage("A", FALSE)]
    /\ remote \in Remotes({TRUE}, {TRUE}, {}, {})
    /\ last = NoCall
    /\ prev = NoSummary
    /\ obs = "idle"
    /\ bot = NotRun
    /\ conn = NewConnection
    /\ tagger = NotRun

NextConn ==
    \E t \in Threads :
        \/ CallSend(t)
        \/ SendAcquire(t)
        \/ SendMessage(t)
        \/ SendTerminator(t)
        \/ SendRelease(t)

SpecConn == InitConn /\ [][NextConn]_vars

(***************************************************************************)
(* C39. With several threads in the send operations, at most one thread is *)
(* inside sendall at any time, and on the socket every message is followed *)
(* at once by its own line terminator: no data of another thread comes     *)
(* between a message and its terminator.                                   *)
(***************************************************************************)
InSendall == {t \in Threads : conn.pc[t] \in {"sendall", "partial"}}

C39_OneSenderAtATime ==
    /\ Cardinality(InSendall) <= 1
    /\ \A i \in 1..Len(conn.sock) :
          IF conn.sock[i].data = Terminator
          THEN /\ i > 1
               /\ conn.sock[i - 1].by = conn.sock[i].by
               /\ conn.sock[i - 1].data # Terminator
          ELSE IF i < Len(conn.sock)
               THEN conn.sock[i + 1] = [by |-> conn.sock[i].by, data |-> Terminator]
               ELSE conn.pc[conn.sock[i].by] = "partial"

C39_Witness ==
    /\ Len(conn.sock) = 3
    /\ conn.sock[1].by # conn.sock[3].by
    /\ \E t \in Threads : conn.pc[t] = "partial"
    /\ \E t \in Threads : conn.pc[t] = "lock"

(***************************************************************************)
(* WikiProjectTagger.process_category (earwigbot.tasks.wikiproject_tagger) *)
(* on a finite category graph: every category has subcategories, any       *)
(* categories at all (itself and its ancestors included), and may hold a   *)
(* page.  A walk records the calls of process_category with their level    *)
(* below the starting category, the calls of process_page and the          *)
(* exception that ended it.                                                *)
(***************************************************************************)
Categories == {"C1", "C2", "C3"}

\* The order get_members() lists the categories in.
CategoryOrder == <<"C1", "C2", "C3">>

\* The template of the log line of process_category, in pieces.
LogTemplate == <<"Processing category: [[", "{", "0", "]]">>

\* str.format accepts a template when every "{" finds its "}".
Formats(tpl) ==
    \A i \in 1..Len(tpl) :
        tpl[i] = "{" => \E j \in (i + 1)..Len(tpl) : tpl[j] = "}"

\* page.get_members(): the subcategories in order, then the page if any.
GetMembers(t, c) ==
    SelectSeq(CategoryOrder, LAMBDA m : m \in t.subcats[c])
    \o (IF c \in t.pages THEN <<"P">> ELSE <<>>)

NoWalk == [exc |-> "none", entered |-> {}, calls |-> 0, counter |-> 0]

\* A test that descends at depth 0 as well.
DescendsAtZero(recursive) == recursive >= 0

\* "elif recursive:", recursive an integer.
Descends(recursive) == recursive # 0

\* process_page: counts the page, and raises NotImplementedError when the
\* talk page can be parsed.
ProcessPage(t, w) ==
    IF w.exc # "none" THEN w
    ELSE IF t.parsed THEN [w EXCEPT !.counter = @ + 1, !.exc = "NotImplementedError"]
    ELSE [w EXCEPT !.counter = @ + 1]

RECURSIVE ProcessCategory(_, _, _, _, _, _)
RECURSIVE ProcessMembers(_, _, _, _, _, _)
\* process_category(page, job, recursive), called level levels below the
\* starting category, its log line built from the template tpl.
ProcessCategory(t, tpl, c, recursive, level, w) ==
    IF w.exc # "none" THEN w
    ELSE IF ~Formats(tpl)
    THEN [w EXCEPT !.entered = @ \cup {<<c, level>>}, !.calls = @ + 1,
                   !.exc = "ValueError"]
    ELSE ProcessMembers(t, tpl, GetMembers(t, c), recursive, level,
                        [w EXCEPT !.entered = @ \cup {<<c, level>>},
                                  !.calls = @ + 1])

\* The loop of process_category over the members still to come.
ProcessMembers(t, tpl, members, recursive, level, w) ==
    IF w.exc # "none" \/ members = <<>> THEN w
    ELSE ProcessMembers(t, tpl, Tail(members), recursive, level,
             IF Head(members) \in Categories
             THEN IF Descends(recursive)
                  THEN ProcessCategory(t, tpl, Head(members), recursive - 1,
                                       level + 1, w)
                  ELSE w
             ELSE ProcessPage(t, w))

\* A tagger about to call process_category(start, job, recursive).
NewTagger(subcats, pages, parsed, start, recursive) ==
    [subcats |-> subcats, pages |-> pages, parsed |-> parsed, start |-> start,
     recursive |-> recursive, pc |-> "ready", walk |-> NoWalk]

\* run_job: self.process_category(site.get_page(title), job, recursive)
CallProcessCategory ==
    /\ tagger.pc = "ready"
    /\ tagger' = [tagger EXCEPT
                     !.pc = "done",
                     !.walk = ProcessCategory(tagger, LogTemplate, tagger.start,
                                              tagger.recursive, 0, NoWalk)]
    /\ UNCHANGED <<pagevars, bot, conn>>

InitTagger ==
    /\ page = [i \in {1, 2} |-> NewPage("A", FALSE)]
    /\ remote \in Remotes({TRUE}, {TRUE}, {}, {})
    /\ last = NoCall
    /\ prev = NoSummary
    /\ obs = "idle"
    /\ bot = NotRun
    /\ conn = NotRun
    /\ tagger \in {NewTagger(s, p, x, c, n) :
                      s \in [Categories -> SUBSET Categories],
                      p \in SUBSET Categories, x \in BOOLEAN,
                      c \in Categories, n \in 0..MaxDepth}

NextTagger == CallProcessCategory

SpecTagger == InitTagger /\ [][NextTagger]_vars

(***************************************************************************)
(* C40. process_category called with an integer depth NUM >= 0 ends on     *)
(* every category graph, cyclic ones included, having entered no category  *)
(* more than NUM levels below the starting one, and with NUM = 0 no        *)
(* subcategory at all.  The call as the code stands ends in its first      *)
(* statement; the loop below that statement, reached when the log template *)
(* is one that formats, keeps the same bound, and makes no more calls than *)
(* a tree of depth NUM over the categories has nodes.                      *)
(***************************************************************************)
RECURSIVE TreeSize(_)
TreeSize(n) == IF n = 0 THEN 1 ELSE 1 + Cardinality(Categories) * TreeSize(n - 1)

\* The template of the log line with its replacement field closed.
ClosedTemplate == <<"Processing category: [[", "{", "0", "}", "]]">>

\* The walk of the tagger's graph with a log line that formats.
LoggedWalk ==
    ProcessCategory(tagger, ClosedTemplate, tagger.start, tagger.recursive, 0, NoWalk)

DepthBounded(walk) ==
    /\ \A e \in walk.entered : e[2] <= tagger.recursive
    /\ tagger.recursive = 0 => walk.entered \subseteq {<<tagger.start, 0>>}
    /\ walk.calls <= TreeSize(tagger.recursive)

\* The starting category is among its own descendants.
RECURSIVE Reach(_, _)
Reach(cs, n) ==
    IF n = 0 THEN cs
    ELSE Reach(cs \cup UNION {tagger.subcats[c] : c \in cs}, n - 1)

Cyclic == tagger.start \in Reach(tagger.subcats[tagger.start], Cardinality(Categories))

====
